---- MODULE Spec2Model ----
(***************************************************************************)
(* Model of the loki_client buffering / delivery pipeline:                 *)
(*   LogBuffer      (src/src/loki_client/buffer.py)                        *)
(*   LokiTransport  (src/src/loki_client/transport.py)                     *)
(* Threads are the callers of append/flush/stop and the "loki-buffer"      *)
(* background thread.  A `with self._lock:` block is one step (the blocks   *)
(* exclude each other); every call of Transport.send is a step of its own. *)
(***************************************************************************)
EXTENDS Integers, Sequences, FiniteSets, TLC

\* ------------------------------------------------------------------ bounds
MaxAppends == 2
MaxTime == 2
MaxEntries == 3
MaxClock == 3

\* --------------------------------------------------------- program constants
_WRAPPER_OVERHEAD == 14
_COMMA_OVERHEAD == 1

\* ------------------------------------------------------------------ threads
Callers == {"c1", "c2"}
Bg == "bg"
Threads == Callers \cup {Bg}
NoThread == "none"

\* ----------------------------------------------------------- input domains
\* label dicts (insertion-ordered key/value pairs) and messages of the entries
LabelSets == { << <<"app", "a">> >>, << <<"app", "b">> >> }
Messages == {"m"}

\* an optional setting: not set (None), or set to a value
None == {}
Some(v) == {v}

\* configurations accepted by LokiConfig.__post_init__
Config(bs, mbs, mr, rb) ==
    [batch_size |-> bs, max_buffer_size |-> mbs, max_batch_bytes |-> 100,
     max_retries |-> mr, retry_backoff |-> rb, max_message_bytes |-> None]
Configs == { Config(2, 2, 2, 0), Config(2, 2, 1, 1), Config(2, 1, 0, 1) }

\* the same with the byte budget and the message limit the application asks
\* for (LokiHandler.standalone passes max_message_bytes on; LokiConfig declares
\* no such field, so the limit is an attribute only the config object carries)
ConfigOf(bs, mbs, mr, rb, b, mmb) ==
    [Config(bs, mbs, mr, rb) EXCEPT !.max_batch_bytes = b, !.max_message_bytes = mmb]

\* label dicts and messages of an application that logs from one thread:
\* two keys in both insertion orders, a short and a long message
WideLabelSets ==
    { << <<"app", "a">> >>,
      << <<"app", "a">>, <<"env", "x">> >>,
      << <<"env", "x">>, <<"app", "a">> >> }
WideMessages == Messages \cup {"mmmmmmmmmmmmmmmmmmmm"}

\* which caller threads make which calls of the public API
Roles(a, f, s) == [append |-> a, flush |-> f, stop |-> s]
RoleSets ==
    { Roles({"c1", "c2"}, {"c2"}, {}),      \* two appenders, one of them flushes
      Roles({"c1"}, {}, {"c2"}),            \* an appender and a stopper
      Roles({"c1"}, {}, {"c1"}),            \* one thread appends and stops
      Roles({}, {}, {"c1", "c2"}) }         \* two stoppers

\* outcomes of one HTTP POST: 2xx, non-2xx (HTTPStatusError), no response
\* (httpx.HTTPError), any other exception raised under the client
PostOutcomes == {"2xx", "status", "net", "other"}

\* how a backend fails while the buffer runs: it answers non-2xx ("reject")
\* or it is unreachable ("down"); it may also succeed or break the client
Backends == {"reject", "down"}
OutcomesOf(b) == {"2xx", IF b = "reject" THEN "status" ELSE "net", "other"}

\* ------------------------------------------------------------ JSON lengths
RECURSIVE DecLen(_)
DecLen(n) == IF n < 10 THEN 1 ELSE 1 + DecLen(n \div 10)

RECURSIVE SumSeq(_)
SumSeq(s) == IF s = <<>> THEN 0 ELSE Head(s) + SumSeq(Tail(s))

\* len(json.dumps(str)) for a plain ASCII string
JsonStrLen(s) == Len(s) + 2

\* len(json.dumps(items)) for a list/dict whose items have the given lengths:
\* brackets plus the items joined by ", "
JsonListLen(lens) ==
    2 + SumSeq(lens) + (IF Len(lens) > 1 THEN 2 * (Len(lens) - 1) ELSE 0)

\* len(json.dumps(labels)): {"k": "v", ...}
LabelsJsonLen(labels) ==
    JsonListLen([i \in 1..Len(labels) |->
                   JsonStrLen(labels[i][1]) + 2 + JsonStrLen(labels[i][2])])

\* LogEntry.line with empty metadata
Line(e) == e.message

\* one element of "values": [str(e.timestamp_ns), e.line]
ValueOf(e) == [ts |-> e.timestamp_ns, line |-> Line(e)]

\* len(json.dumps(val).encode())
ValJsonLen(val) == JsonListLen(<<DecLen(val.ts) + 2, JsonStrLen(val.line)>>)

\* len(json.dumps(stream).encode()): {"stream": <labels>, "values": [...]}
StreamJsonLen(stream) ==
    11 + LabelsJsonLen(stream.stream) + 12
       + JsonListLen([i \in 1..Len(stream.values) |-> ValJsonLen(stream.values[i])])
       + 1

\* len(json.dumps(payload).encode()): {"streams": [...]}
PayloadJsonLen(payload) ==
    12 + JsonListLen([i \in 1..Len(payload) |-> StreamJsonLen(payload[i])]) + 1

\* ---------------------------------------------------------------- transport
\* mutant of GroupKey: the key keeps the insertion order (no sort_keys)
GroupKeyAsWritten(labels) == labels

\* json.dumps(entry.labels, sort_keys=True): the order-free form of the dict
GroupKey(labels) == {labels[i] : i \in 1..Len(labels)}

\* first entry of every group, in order of first occurrence (dict order)
RECURSIVE GroupHeads(_)
GroupHeads(entries) ==
    IF entries = <<>> THEN <<>>
    ELSE <<Head(entries)>> \o
         GroupHeads(SelectSeq(Tail(entries),
                      LAMBDA e : GroupKey(e.labels) # GroupKey(Head(entries).labels)))

\* mutant of GroupOf: a group keeps the first entry of its label set only
GroupOfFirst(entries, h) == << h >>

\* _build_streams: `grouped[key][1].append(entry)` for every entry of the key
GroupOf(entries, h) ==
    SelectSeq(entries, LAMBDA e : GroupKey(e.labels) = GroupKey(h.labels))

\* _build_streams: (streams, entries_per_stream) as two parallel lists
_build_streams(entries) ==
    LET heads == GroupHeads(entries)
        groups == [i \in 1..Len(heads) |-> GroupOf(entries, heads[i])]
    IN [streams |-> [i \in 1..Len(heads) |->
                       [stream |-> heads[i].labels,
                        values |-> [j \in 1..Len(groups[i]) |-> ValueOf(groups[i][j])]]],
        entries |-> groups]

\* mutant of ChunkFull: a chunk is closed as soon as it would reach the budget
ChunkFullEarly(chunk_vals, chunk_size, comma, val_size, max_bytes) ==
    chunk_vals # <<>> /\ chunk_size + comma + val_size >= max_bytes

\* _split_oversized_streams: `if chunk_vals and chunk_size + comma + val_size > max_bytes`
ChunkFull(chunk_vals, chunk_size, comma, val_size, max_bytes) ==
    chunk_vals # <<>> /\ chunk_size + comma + val_size > max_bytes

\* the chunking loop of _split_oversized_streams over one oversized stream
RECURSIVE ChunkLoop(_, _, _, _, _, _, _, _)
ChunkLoop(labels, values, group, base, max_bytes, chunk_vals, chunk_entries, chunk_size) ==
    IF values = <<>>
    THEN IF chunk_vals # <<>>
         THEN [streams |-> << [stream |-> labels, values |-> chunk_vals] >>,
               entries |-> << chunk_entries >>]
         ELSE [streams |-> <<>>, entries |-> <<>>]
    ELSE LET val == Head(values)
             val_size == ValJsonLen(val)
             comma == IF chunk_vals # <<>> THEN _COMMA_OVERHEAD ELSE 0
             close == ChunkFull(chunk_vals, chunk_size, comma, val_size, max_bytes)
             cv == IF close THEN <<>> ELSE chunk_vals
             ce == IF close THEN <<>> ELSE chunk_entries
             cs == IF close THEN base ELSE chunk_size
             cv2 == Append(cv, val)
             rest == ChunkLoop(labels, Tail(values), Tail(group), base, max_bytes,
                               cv2, Append(ce, Head(group)),
                               cs + (IF Len(cv2) > 1 THEN _COMMA_OVERHEAD ELSE 0) + val_size)
         IN IF close
            THEN [streams |-> << [stream |-> labels, values |-> chunk_vals] >> \o rest.streams,
                  entries |-> << chunk_entries >> \o rest.entries]
            ELSE rest

RECURSIVE _split_oversized_streams(_, _, _)
_split_oversized_streams(streams, entries_per_stream, max_bytes) ==
    IF streams = <<>> THEN [streams |-> <<>>, entries |-> <<>>]
    ELSE LET stream == Head(streams)
             group == Head(entries_per_stream)
             rest == _split_oversized_streams(Tail(streams), Tail(entries_per_stream), max_bytes)
             \* len('{"stream":<label_json>,"values":[]}') + _WRAPPER_OVERHEAD
             base == 10 + LabelsJsonLen(stream.stream) + 13 + _WRAPPER_OVERHEAD
             out == IF StreamJsonLen(stream) <= max_bytes
                    THEN [streams |-> <<stream>>, entries |-> <<group>>]
                    ELSE ChunkLoop(stream.stream, stream.values, group, base, max_bytes,
                                   <<>>, <<>>, base)
         IN [streams |-> out.streams \o rest.streams,
             entries |-> out.entries \o rest.entries]

\* _split_batches: a batch is the list under its "streams" key
RECURSIVE BatchLoop(_, _, _, _)
BatchLoop(streams, max_bytes, current, current_size) ==
    IF streams = <<>>
    THEN IF current # <<>> THEN << current >> ELSE <<>>
    ELSE LET stream == Head(streams)
             stream_size == StreamJsonLen(stream)
             comma == IF current # <<>> THEN _COMMA_OVERHEAD ELSE 0
             projected == current_size + comma + stream_size
             close == current # <<>> /\ projected > max_bytes
             cur == IF close THEN <<>> ELSE current
             cs == IF close THEN _WRAPPER_OVERHEAD ELSE current_size
             cur2 == Append(cur, stream)
             rest == BatchLoop(Tail(streams), max_bytes, cur2,
                               cs + (IF Len(cur2) > 1 THEN _COMMA_OVERHEAD ELSE 0) + stream_size)
         IN IF close THEN << current >> \o rest ELSE rest

_split_batches(streams, max_bytes) == BatchLoop(streams, max_bytes, <<>>, _WRAPPER_OVERHEAD)

RECURSIVE Flatten(_)
Flatten(ss) == IF ss = <<>> THEN <<>> ELSE Head(ss) \o Flatten(Tail(ss))

\* mutant of _post: only HTTPStatusError is caught, a network failure escapes
_postNetUncaught(payload, outcome) ==
    CASE outcome = "2xx" ->
           [ok |-> TRUE, raised |-> FALSE, error |-> 0, drop |-> 0,
            sent |-> SumSeq([i \in 1..Len(payload) |-> Len(payload[i].values)])]
      [] outcome = "status" ->
           [ok |-> FALSE, raised |-> FALSE, sent |-> 0, error |-> 1, drop |-> 0]
      [] OTHER ->
           [ok |-> FALSE, raised |-> TRUE, sent |-> 0, error |-> 0, drop |-> 0]

\* mutant of _post: a network failure is counted as a server error
_postNetAsError(payload, outcome) ==
    CASE outcome = "2xx" ->
           [ok |-> TRUE, raised |-> FALSE, error |-> 0, drop |-> 0,
            sent |-> SumSeq([i \in 1..Len(payload) |-> Len(payload[i].values)])]
      [] outcome \in {"status", "net"} ->
           [ok |-> FALSE, raised |-> FALSE, sent |-> 0, error |-> 1, drop |-> 0]
      [] OTHER ->
           [ok |-> FALSE, raised |-> TRUE, sent |-> 0, error |-> 0, drop |-> 0]

\* _post: what one POST outcome does to the counters and to the caller
_post(payload, outcome) ==
    CASE outcome = "2xx" ->
           [ok |-> TRUE, raised |-> FALSE, error |-> 0, drop |-> 0,
            sent |-> SumSeq([i \in 1..Len(payload) |-> Len(payload[i].values)])]
      [] outcome = "status" ->
           [ok |-> FALSE, raised |-> FALSE, sent |-> 0, error |-> 1, drop |-> 0]
      [] outcome = "net" ->
           [ok |-> FALSE, raised |-> FALSE, sent |-> 0, error |-> 0, drop |-> 1]
      [] OTHER ->
           [ok |-> FALSE, raised |-> TRUE, sent |-> 0, error |-> 0, drop |-> 0]

\* mutant of Added: the sum is written from a read made before any update
AddedStale(counter, n) == n

\* _post: `with self._lock: self._x_count += n`, on the counter's current value
Added(counter, n) == counter + n

\* mutant of NextOffset: the offset of the next batch is not advanced
OffsetStuck(stream_offset, batch_size) == stream_offset

\* send: `stream_offset += batch_size`
NextOffset(stream_offset, batch_size) == stream_offset + batch_size

\* mutant of LoopOn: the loop ends at the first batch that failed
StopAtFailure(ok) == ok

\* send: `for batch in batches:` has no break, whatever _post returned
LoopOn(ok) == TRUE

\* the POST loop of send: batches left, their outcomes, stream_offset
RECURSIVE PostLoop(_, _, _, _)
PostLoop(batches, outcomes, entries_per_stream, stream_offset) ==
    IF batches = <<>>
    THEN [failed |-> <<>>, raised |-> FALSE, cause |-> "", sent |-> 0, error |-> 0, drop |-> 0,
          posts |-> 0, posted |-> <<>>]
    ELSE LET batch == Head(batches)
             batch_size == Len(batch)
             r == _post(batch, Head(outcomes))
             batch_entries ==
                 Flatten(SubSeq(entries_per_stream, stream_offset + 1, stream_offset + batch_size))
             post == [payload |-> batch, outcome |-> Head(outcomes)]
         IN IF r.raised
            THEN [failed |-> <<>>, raised |-> TRUE, cause |-> Head(outcomes),
                  sent |-> 0, error |-> 0, drop |-> 0, posts |-> 1, posted |-> << post >>]
            ELSE LET rest == PostLoop(IF LoopOn(r.ok) THEN Tail(batches) ELSE <<>>,
                                      Tail(outcomes), entries_per_stream,
                                      NextOffset(stream_offset, batch_size))
                 IN [failed |-> (IF r.ok THEN <<>> ELSE << batch_entries >>) \o rest.failed,
                     raised |-> rest.raised,
                     cause |-> rest.cause,
                     sent |-> r.sent + rest.sent,
                     error |-> r.error + rest.error,
                     drop |-> r.drop + rest.drop,
                     posts |-> 1 + rest.posts,
                     posted |-> << post >> \o rest.posted]

\* the wire batches send() builds for its input
Batches(entries, max_bytes) ==
    LET b == _build_streams(entries)
        s == _split_oversized_streams(b.streams, b.entries, max_bytes)
    IN [batches |-> _split_batches(s.streams, max_bytes), entries |-> s.entries]

\* mutant of send: an empty input is posted as a payload without streams
sendPostsEmpty(entries, max_bytes, outcomes) ==
    LET p == Batches(entries, max_bytes)
    IN PostLoop(IF entries = <<>> THEN << <<>> >> ELSE p.batches,
                IF entries = <<>> THEN << "2xx" >> ELSE outcomes, p.entries, 0)

\* LokiTransport.send under the given POST outcomes (one per wire batch)
send(entries, max_bytes, outcomes) ==
    IF entries = <<>>
    THEN [failed |-> <<>>, raised |-> FALSE, cause |-> "", sent |-> 0, error |-> 0, drop |-> 0,
          posts |-> 0, posted |-> <<>>]
    ELSE LET p == Batches(entries, max_bytes)
         IN PostLoop(p.batches, outcomes, p.entries, 0)

\* -------------------------------------------------------------------- state
VARIABLES
    cfg,            \* LokiConfig (frozen)
    backend,        \* the failure mode of the backend
    roles,          \* the calls each caller thread makes
    buffer,         \* LogBuffer._buffer, the pending list
    retry_queue,    \* LogBuffer._retry_queue, a list of _RetryItem
    lock,           \* holder of LogBuffer._lock, or NoThread
    stop_event,     \* LogBuffer._stop_event
    flush_count,    \* LogBuffer._flush_count
    drop_count,     \* LogBuffer._drop_count
    sent_count,     \* LokiTransport._sent_count
    error_count,    \* LokiTransport._error_count
    t_drop_count,   \* LokiTransport._drop_count
    now,            \* time.monotonic()
    pc,             \* position of every thread
    op,             \* the public method a thread is executing ("" when in none)
    batch,          \* local `batch` / `entries` of append, flush, _send_batch
    failed,         \* local `failed` of _send_batch still to be enqueued
    ready,          \* local `ready` of _process_retries still to be resent
    tnow,           \* local `now` of _process_retries
    offered,        \* number of append() calls made
    handed,         \* per entry: first-attempt batches handed to Transport holding it
    sends,          \* per entry: Transport.send calls holding it
    stop_runs,      \* number of stop() calls that went past the is_set() test
    stop_saw,       \* the entries that were pending when stop() was called
    escaped,        \* POST outcomes whose exception left append/flush/stop/_run
    posted,         \* the HTTP POSTs (payload, outcome) made by the step just taken
    took,           \* per thread: what the flush() it is inside detached
    snap,           \* per thread: the values its stats read has collected
    called,         \* per thread: it has called Loki.stop()
    closed,         \* number of LokiTransport.close() calls made
    handler,        \* the LokiHandler: how it was made, whether it owns its client
    reported        \* per thread: the failed groups its _send_batch got from send

vars == << cfg, backend, roles, buffer, retry_queue, lock, stop_event, flush_count, drop_count,
           sent_count, error_count, t_drop_count, now, pc, op, batch, failed,
           ready, tnow, offered, handed, sends, stop_runs, stop_saw, escaped, posted, took,
           snap, called, closed, handler, reported >>

shared == << buffer, retry_queue, flush_count, drop_count >>
transport == << sent_count, error_count, t_drop_count >>
ghosts == << offered, handed, sends, stop_runs, stop_saw, escaped >>
\* the state of the callers of stats, of the client and of the handler
client == << called, closed, handler >>
\* what the actions of _send_batch leave alone
aside == << snap, client >>
aux == << aside, reported >>

Ids == 1..(MaxAppends + MaxEntries)

\* mutant of _RetryItem: the first deadline is already twice the backoff
_RetryItemDoubled(entries, backoff, t) ==
    [entries |-> entries, attempts |-> 0, next_retry |-> t + backoff * 2]

\* _RetryItem.__init__
_RetryItem(entries, backoff, t) ==
    [entries |-> entries, attempts |-> 0, next_retry |-> t + backoff]

LogEntry(message, labels, ts) ==
    [message |-> message, labels |-> labels, timestamp_ns |-> ts]

\* no LokiHandler has been made
NoHandler == [made |-> "none", owns |-> FALSE, client |-> "none", open |-> FALSE, stops |-> 0]

\* LogBuffer.__init__ (the background thread is started and waits)
Init ==
    /\ cfg \in Configs
    /\ backend \in Backends
    /\ roles \in RoleSets
    /\ buffer = <<>>
    /\ retry_queue = <<>>
    /\ lock = NoThread
    /\ stop_event = FALSE
    /\ flush_count = 0
    /\ drop_count = 0
    /\ sent_count = 0
    /\ error_count = 0
    /\ t_drop_count = 0
    /\ now = 0
    /\ pc = [t \in Threads |-> IF t = Bg THEN "wait" ELSE "idle"]
    /\ op = [t \in Threads |-> IF t = Bg THEN "run" ELSE ""]
    /\ batch = [t \in Threads |-> <<>>]
    /\ failed = [t \in Threads |-> <<>>]
    /\ ready = [t \in Threads |-> <<>>]
    /\ tnow = [t \in Threads |-> 0]
    /\ offered = 0
    /\ handed = [i \in Ids |-> 0]
    /\ sends = [i \in Ids |-> 0]
    /\ stop_runs = 0
    /\ stop_saw = {}
    /\ escaped = {}
    /\ posted = <<>>
    /\ took = [t \in Threads |-> "none"]
    /\ snap = [t \in Threads |-> <<>>]
    /\ called = [t \in Threads |-> FALSE]
    /\ closed = 0
    /\ handler = NoHandler
    /\ reported = [t \in Threads |-> <<>>]

\* mutant of Ret: Loki.stop returns when self._buffer.stop() has returned
RetSkipsClose(t) == IF t = Bg THEN "wait" ELSE "idle"

\* mutant of Ret: _run flushes once instead of looping
RetOnce(t) == IF t = Bg THEN "done" ELSE IF called[t] THEN "close" ELSE "idle"

\* where a thread is after its public call has returned: back in _run, at
\* the `self._transport.close()` of Loki.stop, or in its caller
Ret(t) == IF t = Bg THEN "wait" ELSE IF called[t] THEN "close" ELSE "idle"

\* mutant of Raised: the exception is swallowed and flush() goes on
RaisedResumes(t) == "pr"

\* where a thread is after an exception has left its call: the caller gets
\* it; _run has no handler, so the background thread ends
Raised(t) == IF t = Bg THEN "dead" ELSE "idle"

\* op of a thread whose pc becomes p
OpAt(t, p) == IF p \in {"idle", "close"} THEN "" ELSE op[t]

\* what the flush() of a thread has detached, when its pc becomes p: nothing
\* is remembered once the flush() has returned or raised
TookAt(t, p) == IF p \in {"idle", "close", "wait", "dead"} THEN "none" ELSE took[t]

\* a step that makes no HTTP POST
NoPost == posted' = <<>>

\* mutant of HasBatch: the batch is sent without the test
HasBatchAlways(b) == TRUE

\* flush: `if batch:`
HasBatch(b) == b # <<>>

\* positions inside a call of Transport.send
SendPcs == {"send", "pr_send"}

\* the holder of the lock when a `with self._lock:` block has been left
Released(t) == NoThread

\* mutant of LockAtAppendSend: the send is made inside the `with` block
LockKept(t) == t

\* append: the detached batch is sent after the `with` block
LockAtAppendSend(t) == Released(t)

\* flush: the detached batch is sent after the `with` block
LockAtFlushSend(t) == Released(t)

\* _process_retries: the ready items are resent after the `with` block
LockAtRetrySend(t) == Released(t)

\* mutant of Full: append has no capacity test
FullNever(buf) == FALSE

\* mutant of Full: the capacity test is off by one
FullOffByOne(buf) == Len(buf) > cfg.max_buffer_size

\* append: `len(self._buffer) >= self._config.max_buffer_size`
Full(buf) == Len(buf) >= cfg.max_buffer_size

\* mutant of AtThreshold: the threshold test is off by one
AtThresholdStrict(buf) == Len(buf) > cfg.batch_size

\* append: `len(self._buffer) >= self._config.batch_size`
AtThreshold(buf) == Len(buf) >= cfg.batch_size

\* mutant of Cleared: the pending list is copied but not cleared
NotCleared(buf) == buf

\* `self._buffer.clear()` after `batch = list(self._buffer)`
Cleared(buf) == <<>>

\* mutant of Dropped: a dropped group is counted as one entry
DroppedAsOne(entries) == 1

\* `self._drop_count += len(entries)`
Dropped(entries) == Len(entries)

\* mutant of RetriesDisabled: only a negative max_retries disables retries
RetriesDisabledStrict == cfg.max_retries < 0

\* _enqueue_retry: `self._config.max_retries <= 0`
RetriesDisabled == cfg.max_retries <= 0

\* mutant of MayRetry: a re-failed item is always rescheduled
MayRetryAlways(item) == TRUE

\* mutant of MayRetry: one resend too many
MayRetryOffByOne(item) == item.attempts <= cfg.max_retries

\* _process_retries: `item.attempts < self._config.max_retries`
MayRetry(item) == item.attempts < cfg.max_retries

\* append(entry): the locked block (capacity test, store, threshold detach)
\* mutant of Extended: the entry is put at the head of the list
ExtendedAtFront(buf, entry) == << entry >> \o buf

\* append: `self._buffer.append(entry)`
Extended(buf, entry) == Append(buf, entry)

AppendEntry(t, labels, message) ==
    /\ t \in roles.append
    /\ pc[t] = "idle"
    /\ lock = NoThread
    /\ offered' = offered + 1
    /\   LET entry == LogEntry(message, labels, offered + 1)
             stored == Extended(buffer, entry)
         IN IF Full(buffer)
            THEN /\ drop_count' = drop_count + 1
                 /\ lock' = Released(t)
                 /\ UNCHANGED << buffer, batch, pc, op >>
            ELSE IF AtThreshold(stored)
                 THEN /\ batch' = [batch EXCEPT ![t] = stored]
                      /\ buffer' = Cleared(stored)
                      /\ pc' = [pc EXCEPT ![t] = "send"]
                      /\ op' = [op EXCEPT ![t] = "append"]
                      /\ lock' = LockAtAppendSend(t)
                      /\ UNCHANGED drop_count
                 ELSE /\ buffer' = stored
                      /\ lock' = Released(t)
                      /\ UNCHANGED << batch, drop_count, pc, op >>
    /\ NoPost
    /\ UNCHANGED << cfg, backend, roles, aux, retry_queue, flush_count, stop_event, transport, now,
                    failed, ready, tnow, handed, sends, stop_runs, stop_saw, escaped, took >>

\* a caller invokes append(entry)
Append_(t) ==
    /\ offered < MaxAppends
    /\ \E labels \in LabelSets, message \in Messages : AppendEntry(t, labels, message)

\* the single-threaded application invokes append(entry)
AppendAny(t) ==
    /\ offered < MaxEntries
    /\ \E labels \in WideLabelSets, message \in WideMessages : AppendEntry(t, labels, message)

\* the single-threaded application invokes append(entry), entries differing
\* in their label set only
AppendFew(t) ==
    /\ offered < MaxEntries
    /\ \E labels \in LabelSets, message \in Messages : AppendEntry(t, labels, message)

\* the locked block of flush() run by thread t as part of method m
FlushDetach(t, m) ==
    /\ lock = NoThread
    /\ batch' = [batch EXCEPT ![t] = buffer]
    /\ buffer' = Cleared(buffer)
    /\ op' = [op EXCEPT ![t] = m]
    /\ took' = [took EXCEPT ![t] = IF buffer # <<>> THEN "batch" ELSE "empty"]
    /\ NoPost
    /\ IF HasBatch(buffer)
       THEN /\ pc' = [pc EXCEPT ![t] = "send"]
            /\ lock' = LockAtFlushSend(t)
            /\ UNCHANGED tnow
       ELSE /\ pc' = [pc EXCEPT ![t] = "pr"]
            /\ lock' = Released(t)
            /\ tnow' = [tnow EXCEPT ![t] = now]
    /\ UNCHANGED << cfg, backend, roles, aux, retry_queue, flush_count, drop_count, stop_event, transport,
                    now, failed, ready, ghosts >>

\* a caller invokes flush()
Flush(t) ==
    /\ t \in roles.flush
    /\ pc[t] = "idle"
    /\ FlushDetach(t, "flush")

\* the entries of a batch, as the set of their timestamps
IdsOf(entries) == {entries[i].timestamp_ns : i \in 1..Len(entries)}

\* _send_batch: failed = self._transport.send(entries)
SendBatch(t) ==
    /\ pc[t] = "send"
    /\ \E outcomes \in [1..Len(Batches(batch[t], cfg.max_batch_bytes).batches) -> OutcomesOf(backend)] :
         LET r == send(batch[t], cfg.max_batch_bytes, outcomes)
         IN /\ sent_count' = Added(sent_count, r.sent)
            /\ error_count' = Added(error_count, r.error)
            /\ t_drop_count' = Added(t_drop_count, r.drop)
            /\ posted' = r.posted
            /\ IF r.raised
               THEN /\ pc' = [pc EXCEPT ![t] = Raised(t)]
                    /\ op' = [op EXCEPT ![t] = OpAt(t, Raised(t))]
                    /\ took' = [took EXCEPT ![t] = TookAt(t, Raised(t))]
                    /\ escaped' = escaped \cup {r.cause}
                    /\ UNCHANGED << failed, reported >>
               ELSE /\ pc' = [pc EXCEPT ![t] = "sb"]
                    /\ failed' = [failed EXCEPT ![t] = r.failed]
                    /\ reported' = [reported EXCEPT ![t] = r.failed]
                    /\ UNCHANGED << op, escaped, took >>
    /\ handed' = [i \in Ids |-> IF i \in IdsOf(batch[t]) THEN handed[i] + 1 ELSE handed[i]]
    /\ sends' = [i \in Ids |-> IF i \in IdsOf(batch[t]) THEN sends[i] + 1 ELSE sends[i]]
    /\ batch' = [batch EXCEPT ![t] = <<>>]
    /\ UNCHANGED << cfg, backend, roles, aside, shared, lock, stop_event, now, ready, tnow, offered, stop_runs,
                    stop_saw >>

\* mutant of AfterSendBatch: flush() returns after _send_batch
AfterSendBatchReturn(t) == "idle"

\* what follows _send_batch in the method that called it
AfterSendBatch(t) == IF op[t] = "append" THEN "idle" ELSE "pr"

\* mutant of Counted: one per failed group that send reported
CountedPerFailed(f) == Len(f)

\* _send_batch: `self._flush_count += 1`, whatever send returned
Counted(f) == 1

\* _send_batch: the locked block that counts the hand-off
CountFlush(t) ==
    /\ pc[t] = "sb"
    /\ lock = NoThread
    /\ flush_count' = flush_count + Counted(failed[t])
    /\ lock' = Released(t)
    /\ LET nxt == IF failed[t] # <<>> THEN "enq" ELSE AfterSendBatch(t)
       IN /\ pc' = [pc EXCEPT ![t] = nxt]
          /\ op' = [op EXCEPT ![t] = OpAt(t, nxt)]
          /\ took' = [took EXCEPT ![t] = TookAt(t, nxt)]
          /\ tnow' = [tnow EXCEPT ![t] = IF nxt = "pr" THEN now ELSE tnow[t]]
    /\ NoPost
    /\ UNCHANGED << cfg, backend, roles, aux, buffer, retry_queue, drop_count, stop_event, transport, now,
                    batch, failed, ready, ghosts >>

\* mutant of Remaining: the loop over the failed groups ends after the first
RemainingNone(f) == <<>>

\* _send_batch: `for batch in failed:`, the groups still to be enqueued
Remaining(f) == Tail(f)

\* _enqueue_retry for the next failed group: drop it or queue a new item
_enqueue_retry(t) ==
    /\ pc[t] = "enq"
    /\ lock = NoThread
    /\ LET entries == Head(failed[t])
       IN IF RetriesDisabled
          THEN /\ drop_count' = drop_count + Dropped(entries)
               /\ UNCHANGED retry_queue
          ELSE /\ retry_queue' = Append(retry_queue,
                                        _RetryItem(entries, cfg.retry_backoff, now))
               /\ UNCHANGED drop_count
    /\ failed' = [failed EXCEPT ![t] = Remaining(failed[t])]
    /\ lock' = Released(t)
    /\ LET nxt == IF Remaining(failed[t]) # <<>> THEN "enq" ELSE AfterSendBatch(t)
       IN /\ pc' = [pc EXCEPT ![t] = nxt]
          /\ op' = [op EXCEPT ![t] = OpAt(t, nxt)]
          /\ took' = [took EXCEPT ![t] = TookAt(t, nxt)]
          /\ tnow' = [tnow EXCEPT ![t] = IF nxt = "pr" THEN now ELSE tnow[t]]
          /\ reported' = [reported EXCEPT ![t] = IF nxt = "enq" THEN reported[t] ELSE <<>>]
    /\ NoPost
    /\ UNCHANGED << cfg, backend, roles, aside, buffer, flush_count, stop_event, transport, now,
                    batch, ready, ghosts >>

\* mutant of Due: an item is due only once its deadline lies in the past
DueStrict(r, n) == r.next_retry < n

\* _process_retries: `r.next_retry <= now`
Due(r, n) == r.next_retry <= n

\* mutant of Kept: the due items are copied and stay in the queue
KeptAll(queue, n) == queue

\* _process_retries: `self._retry_queue = [r for ... if r.next_retry > now]`
Kept(queue, n) == SelectSeq(queue, LAMBDA r : ~Due(r, n))

\* _process_retries: the locked block takes the due items out of the queue
TakeReady(t) ==
    /\ pc[t] = "pr"
    /\ lock = NoThread
    /\ LET due == SelectSeq(retry_queue, LAMBDA r : Due(r, tnow[t]))
           nxt == IF due # <<>> THEN "pr_send" ELSE Ret(t)
       IN /\ ready' = [ready EXCEPT ![t] = due]
          /\ retry_queue' = Kept(retry_queue, tnow[t])
          /\ pc' = [pc EXCEPT ![t] = nxt]
          /\ op' = [op EXCEPT ![t] = OpAt(t, nxt)]
          /\ took' = [took EXCEPT ![t] = TookAt(t, nxt)]
          /\ lock' = IF due # <<>> THEN LockAtRetrySend(t) ELSE Released(t)
    /\ NoPost
    /\ tnow' = [tnow EXCEPT ![t] = 0]
    /\ UNCHANGED << cfg, backend, roles, aux, buffer, flush_count, drop_count, stop_event, transport, now,
                    batch, failed, ghosts >>

\* mutant of Backoff: the delay does not grow with the attempts
BackoffFlat(item) == cfg.retry_backoff

\* the delay before the next resend of an item that has failed again
Backoff(item) == cfg.retry_backoff * (2 ^ item.attempts)

\* mutant of Retained: a re-failed item keeps the first of its entries only
RetainedFirst(item, f) == << Head(item.entries) >>

\* _process_retries: `failed` is only tested, item.entries is never assigned
Retained(item, f) == item.entries

\* mutant of Refailed: the item is treated as failed whatever send returned
RefailedAlways(f) == TRUE

\* _process_retries: `if failed:`
Refailed(f) == f # <<>>

\* _process_retries: item.attempts += 1 and the resend of the next ready item
Resend(t) ==
    /\ pc[t] = "pr_send"
    /\ LET item == [Head(ready[t]) EXCEPT !.attempts = @ + 1]
       IN /\ \E outcomes \in [1..Len(Batches(item.entries, cfg.max_batch_bytes).batches)
                                -> OutcomesOf(backend)] :
               LET r == send(item.entries, cfg.max_batch_bytes, outcomes)
               IN /\ sent_count' = Added(sent_count, r.sent)
                  /\ error_count' = Added(error_count, r.error)
                  /\ t_drop_count' = Added(t_drop_count, r.drop)
                  /\ posted' = r.posted
                  /\ IF r.raised
                     THEN /\ pc' = [pc EXCEPT ![t] = Raised(t)]
                          /\ op' = [op EXCEPT ![t] = OpAt(t, Raised(t))]
                          /\ took' = [took EXCEPT ![t] = TookAt(t, Raised(t))]
                          /\ escaped' = escaped \cup {r.cause}
                          /\ ready' = [ready EXCEPT ![t] = <<>>]
                     ELSE IF Refailed(r.failed)
                     THEN /\ pc' = [pc EXCEPT ![t] = "rq"]
                          /\ ready' = [ready EXCEPT ![t] =
                                 << IF MayRetry(item)
                                    THEN [item EXCEPT !.entries = Retained(item, r.failed),
                                                      !.next_retry = now + Backoff(item)]
                                    ELSE [item EXCEPT !.entries = Retained(item, r.failed)] >>
                                   \o Tail(ready[t])]
                          /\ UNCHANGED << op, escaped, took >>
                     ELSE LET nxt == IF Tail(ready[t]) # <<>> THEN "pr_send" ELSE Ret(t)
                          IN /\ pc' = [pc EXCEPT ![t] = nxt]
                             /\ op' = [op EXCEPT ![t] = OpAt(t, nxt)]
                             /\ took' = [took EXCEPT ![t] = TookAt(t, nxt)]
                             /\ ready' = [ready EXCEPT ![t] = Tail(ready[t])]
                             /\ UNCHANGED escaped
          /\ sends' = [i \in Ids |-> IF i \in IdsOf(item.entries)
                                     THEN sends[i] + 1 ELSE sends[i]]
    /\ UNCHANGED << cfg, backend, roles, aux, shared, lock, stop_event, now, batch, failed, tnow,
                    offered, handed, stop_runs, stop_saw >>

\* _process_retries: the locked block that requeues or drops a re-failed item
Requeue(t) ==
    /\ pc[t] = "rq"
    /\ lock = NoThread
    /\ LET item == Head(ready[t])
           nxt == IF Tail(ready[t]) # <<>> THEN "pr_send" ELSE Ret(t)
       IN /\ IF MayRetry(item)
             THEN /\ retry_queue' = Append(retry_queue, item)
                  /\ UNCHANGED drop_count
             ELSE /\ drop_count' = drop_count + Dropped(item.entries)
                  /\ UNCHANGED retry_queue
          /\ pc' = [pc EXCEPT ![t] = nxt]
          /\ op' = [op EXCEPT ![t] = OpAt(t, nxt)]
          /\ took' = [took EXCEPT ![t] = TookAt(t, nxt)]
    /\ NoPost
    /\ ready' = [ready EXCEPT ![t] = Tail(ready[t])]
    /\ lock' = Released(t)
    /\ UNCHANGED << cfg, backend, roles, aux, buffer, flush_count, stop_event, transport, now,
                    batch, failed, tnow, ghosts >>

\* stop(): the test `if self._stop_event.is_set(): return`
StopTest(t) ==
    /\ t \in roles.stop
    /\ pc[t] = "idle"
    /\ ~stop_event
    /\ pc' = [pc EXCEPT ![t] = "stop_set"]
    /\ op' = [op EXCEPT ![t] = "stop"]
    /\ stop_saw' = IdsOf(buffer)
    /\ NoPost
    /\ UNCHANGED << cfg, backend, roles, aux, shared, lock, stop_event, transport, now, batch, failed,
                    ready, tnow, offered, handed, sends, stop_runs, escaped, took >>

\* stop(): self._stop_event.set()
StopSet(t) ==
    /\ pc[t] = "stop_set"
    /\ stop_event' = TRUE
    /\ stop_runs' = stop_runs + 1
    /\ pc' = [pc EXCEPT ![t] = "join"]
    /\ NoPost
    /\ UNCHANGED << cfg, backend, roles, aux, shared, lock, transport, now, op, batch, failed, ready,
                    tnow, offered, handed, sends, stop_saw, escaped, took >>

\* the background thread has ended
BgEnded == pc[Bg] \in {"done", "dead"}

\* mutant of JoinReturns: join() without a timeout
JoinWithoutTimeout == BgEnded

\* Thread.join(timeout=...) returns when the thread has ended or when the
\* timeout has elapsed, which may be at any moment
JoinReturns == BgEnded \/ TRUE

\* stop(): the join returns and the final flush() begins
StopFlush(t) ==
    /\ pc[t] = "join"
    /\ JoinReturns
    /\ FlushDetach(t, "stop")

\* mutant of WaitTimedOut: wait() returns False although the event is set
WaitTimedOutAnyway == TRUE

\* _run: `self._stop_event.wait(flush_interval)` returns False, which it
\* does only while the event is not set
WaitTimedOut == ~stop_event

\* _run: wait() returns False after flush_interval and flush() begins
BgFlush ==
    /\ pc[Bg] = "wait"
    /\ WaitTimedOut
    /\ FlushDetach(Bg, "run")

\* _run: wait() returns False; the thread has yet to take the lock of flush()
BgWake ==
    /\ pc[Bg] = "wait"
    /\ WaitTimedOut
    /\ pc' = [pc EXCEPT ![Bg] = "woke"]
    /\ NoPost
    /\ UNCHANGED << cfg, backend, roles, aux, shared, lock, stop_event, transport, now, op, batch,
                    failed, ready, tnow, ghosts, took >>

\* _run: the locked block of the flush() that follows a wait() that timed out
BgDetach ==
    /\ pc[Bg] = "woke"
    /\ FlushDetach(Bg, "run")

\* _run: wait() returns True once the event is set and the loop ends
BgExit ==
    /\ pc[Bg] = "wait"
    /\ stop_event
    /\ pc' = [pc EXCEPT ![Bg] = "done"]
    /\ NoPost
    /\ UNCHANGED << cfg, backend, roles, aux, shared, lock, stop_event, transport, now, op, batch,
                    failed, ready, tnow, ghosts, took >>

\* the retry items a thread holds or the queue holds
HeldItems ==
    {retry_queue[i] : i \in 1..Len(retry_queue)}
      \cup UNION {{ready[t][i] : i \in 1..Len(ready[t])} : t \in Threads}

\* the monotonic clock advances (observed only through the deadlines of the
\* retry items, so it is followed while one of them lies ahead)
TickTo(limit) ==
    /\ now < limit
    /\ \E r \in HeldItems : r.next_retry > now
    /\ now' = now + 1
    /\ NoPost
    /\ UNCHANGED << cfg, backend, roles, aux, shared, lock, stop_event, transport, pc, op, batch,
                    failed, ready, tnow, ghosts, took >>

\* the clock of the concurrent executions
Tick == TickTo(MaxTime)

Next ==
    \/ \E t \in Threads : Append_(t)
    \/ \E t \in Threads : Flush(t)
    \/ \E t \in Threads : SendBatch(t)
    \/ \E t \in Threads : CountFlush(t)
    \/ \E t \in Threads : _enqueue_retry(t)
    \/ \E t \in Threads : TakeReady(t)
    \/ \E t \in Threads : Resend(t)
    \/ \E t \in Threads : Requeue(t)
    \/ \E t \in Threads : StopTest(t)
    \/ \E t \in Threads : StopSet(t)
    \/ \E t \in Threads : StopFlush(t)
    \/ BgFlush
    \/ BgExit
    \/ Tick

Spec == Init /\ [][Next]_vars

\* ------------------------------------------------ one thread, wide inputs
\* The application logs from one thread and flushes by hand before the first
\* flush interval has elapsed, with retries disabled (max_retries = 0);
\* entries, byte budgets and message limits vary.
App == "c1"

SeqConfigs ==
    { ConfigOf(3, 3, 0, 0, 1000, None),
      ConfigOf(3, 3, 0, 0, 112, None),
      ConfigOf(3, 3, 0, 0, 70, None),
      ConfigOf(3, 2, 0, 0, 40, None),
      ConfigOf(2, 3, 0, 0, 100, Some(10)) }

InitSeq ==
    /\ cfg \in SeqConfigs
    /\ backend \in Backends
    /\ roles = Roles({App}, {App}, {})
    /\ buffer = <<>>
    /\ retry_queue = <<>>
    /\ lock = NoThread
    /\ stop_event = FALSE
    /\ flush_count = 0
    /\ drop_count = 0
    /\ sent_count = 0
    /\ error_count = 0
    /\ t_drop_count = 0
    /\ now = 0
    /\ pc = [t \in Threads |-> IF t = Bg THEN "wait" ELSE "idle"]
    /\ op = [t \in Threads |-> IF t = Bg THEN "run" ELSE ""]
    /\ batch = [t \in Threads |-> <<>>]
    /\ failed = [t \in Threads |-> <<>>]
    /\ ready = [t \in Threads |-> <<>>]
    /\ tnow = [t \in Threads |-> 0]
    /\ offered = 0
    /\ handed = [i \in Ids |-> 0]
    /\ sends = [i \in Ids |-> 0]
    /\ stop_runs = 0
    /\ stop_saw = {}
    /\ escaped = {}
    /\ posted = <<>>
    /\ took = [t \in Threads |-> "none"]
    /\ snap = [t \in Threads |-> <<>>]
    /\ called = [t \in Threads |-> FALSE]
    /\ closed = 0
    /\ handler = NoHandler
    /\ reported = [t \in Threads |-> <<>>]

NextSeq ==
    \/ AppendAny(App)
    \/ Flush(App)
    \/ SendBatch(App)
    \/ CountFlush(App)
    \/ _enqueue_retry(App)
    \/ TakeReady(App)

SpecSeq == InitSeq /\ [][NextSeq]_vars

\* ------------------------------------------------------------------ retries
\* two retries with a base backoff of one clock unit; one immediate retry of
\* batches of three entries that go out in one payload
RetryConfigs == { Config(2, 2, 2, 1), ConfigOf(3, 3, 1, 0, 1000, None) }

\* one thread appends and flushes; the clock runs long enough for the
\* deadline of a second resend to be reached
InitRetry ==
    /\ cfg \in RetryConfigs
    /\ backend \in Backends
    /\ roles = Roles({App}, {App}, {})
    /\ buffer = <<>>
    /\ retry_queue = <<>>
    /\ lock = NoThread
    /\ stop_event = FALSE
    /\ flush_count = 0
    /\ drop_count = 0
    /\ sent_count = 0
    /\ error_count = 0
    /\ t_drop_count = 0
    /\ now = 0
    /\ pc = [t \in Threads |-> IF t = Bg THEN "wait" ELSE "idle"]
    /\ op = [t \in Threads |-> IF t = Bg THEN "run" ELSE ""]
    /\ batch = [t \in Threads |-> <<>>]
    /\ failed = [t \in Threads |-> <<>>]
    /\ ready = [t \in Threads |-> <<>>]
    /\ tnow = [t \in Threads |-> 0]
    /\ offered = 0
    /\ handed = [i \in Ids |-> 0]
    /\ sends = [i \in Ids |-> 0]
    /\ stop_runs = 0
    /\ stop_saw = {}
    /\ escaped = {}
    /\ posted = <<>>
    /\ took = [t \in Threads |-> "none"]
    /\ snap = [t \in Threads |-> <<>>]
    /\ called = [t \in Threads |-> FALSE]
    /\ closed = 0
    /\ handler = NoHandler
    /\ reported = [t \in Threads |-> <<>>]

NextRetry ==
    \/ AppendFew(App)
    \/ Flush(App)
    \/ SendBatch(App)
    \/ CountFlush(App)
    \/ _enqueue_retry(App)
    \/ TakeReady(App)
    \/ Resend(App)
    \/ Requeue(App)
    \/ TickTo(MaxClock)

SpecRetry == InitRetry /\ [][NextRetry]_vars

\* -------------------------------------------------------------------- stats
\* the thread that reads stats while the others append, flush and retry
Reader == "c2"

\* mutant of StatsLock: the four values are read without the lock
StatsNoLock(t) == NoThread

\* stats: `with self._lock:`
StatsLock(t) == t

\* stats: the lock is taken and the two list lengths are read
StatsEnter(t) ==
    /\ pc[t] = "idle"
    /\ lock = NoThread
    /\ lock' = StatsLock(t)
    /\ snap' = [snap EXCEPT ![t] = << Len(buffer), Len(retry_queue) >>]
    /\ pc' = [pc EXCEPT ![t] = "stats"]
    /\ op' = [op EXCEPT ![t] = "stats"]
    /\ NoPost
    /\ UNCHANGED << cfg, backend, roles, client, reported, shared, stop_event, transport, now, batch,
                    failed, ready, tnow, ghosts, took >>

\* stats: the two counters are read, the dict is returned and the lock released
StatsRead(t) ==
    /\ pc[t] = "stats"
    /\ lock' = Released(t)
    /\ snap' = [snap EXCEPT ![t] = snap[t] \o << flush_count, drop_count >>]
    /\ pc' = [pc EXCEPT ![t] = "idle"]
    /\ op' = [op EXCEPT ![t] = ""]
    /\ NoPost
    /\ UNCHANGED << cfg, backend, roles, client, reported, shared, stop_event, transport, now, batch,
                    failed, ready, tnow, ghosts, took >>

\* one thread appends, the background thread flushes and retries, Reader reads
InitStats ==
    /\ cfg \in Configs
    /\ backend \in Backends
    /\ roles = Roles({"c1"}, {}, {})
    /\ buffer = <<>>
    /\ retry_queue = <<>>
    /\ lock = NoThread
    /\ stop_event = FALSE
    /\ flush_count = 0
    /\ drop_count = 0
    /\ sent_count = 0
    /\ error_count = 0
    /\ t_drop_count = 0
    /\ now = 0
    /\ pc = [t \in Threads |-> IF t = Bg THEN "wait" ELSE "idle"]
    /\ op = [t \in Threads |-> IF t = Bg THEN "run" ELSE ""]
    /\ batch = [t \in Threads |-> <<>>]
    /\ failed = [t \in Threads |-> <<>>]
    /\ ready = [t \in Threads |-> <<>>]
    /\ tnow = [t \in Threads |-> 0]
    /\ offered = 0
    /\ handed = [i \in Ids |-> 0]
    /\ sends = [i \in Ids |-> 0]
    /\ stop_runs = 0
    /\ stop_saw = {}
    /\ escaped = {}
    /\ posted = <<>>
    /\ took = [t \in Threads |-> "none"]
    /\ snap = [t \in Threads |-> <<>>]
    /\ called = [t \in Threads |-> FALSE]
    /\ closed = 0
    /\ handler = NoHandler
    /\ reported = [t \in Threads |-> <<>>]

NextStats ==
    \/ Append_("c1")
    \/ \E t \in Threads : SendBatch(t)
    \/ \E t \in Threads : CountFlush(t)
    \/ \E t \in Threads : _enqueue_retry(t)
    \/ \E t \in Threads : TakeReady(t)
    \/ \E t \in Threads : Resend(t)
    \/ \E t \in Threads : Requeue(t)
    \/ BgFlush
    \/ Tick
    \/ StatsEnter(Reader)
    \/ StatsRead(Reader)

SpecStats == InitStats /\ [][NextStats]_vars

\* -------------------------------------------------------- transport alone
\* the entry lists handed to Transport.send by a direct caller: the empty
\* list and the lists of one or two entries
DirectInputs ==
    {<<>>}
      \cup {<< LogEntry(m1, l1, 1) >> : l1 \in LabelSets, m1 \in Messages}
      \cup {<< LogEntry("m", l1, 1), LogEntry("m", l2, 2) >> : l1 \in LabelSets, l2 \in LabelSets}

\* a caller of Transport.send picks its argument
DirectCall(t) ==
    /\ pc[t] = "idle"
    /\ sent_count + error_count + t_drop_count < MaxEntries
    /\ \E entries \in DirectInputs : batch' = [batch EXCEPT ![t] = entries]
    /\ pc' = [pc EXCEPT ![t] = "tsend"]
    /\ op' = [op EXCEPT ![t] = "send"]
    /\ failed' = [failed EXCEPT ![t] = <<>>]
    /\ NoPost
    /\ UNCHANGED << cfg, backend, roles, aux, shared, lock, stop_event, transport, now,
                    ready, tnow, ghosts, took >>

\* LokiTransport.send(entries) runs and returns its failed groups, or raises
DirectSend(t) ==
    /\ pc[t] = "tsend"
    /\ \E outcomes \in [1..Len(Batches(batch[t], cfg.max_batch_bytes).batches) -> OutcomesOf(backend)] :
         LET r == send(batch[t], cfg.max_batch_bytes, outcomes)
         IN /\ sent_count' = Added(sent_count, r.sent)
            /\ error_count' = Added(error_count, r.error)
            /\ t_drop_count' = Added(t_drop_count, r.drop)
            /\ posted' = r.posted
            /\ failed' = [failed EXCEPT ![t] = r.failed]
            /\ escaped' = IF r.raised THEN escaped \cup {r.cause} ELSE escaped
    /\ pc' = [pc EXCEPT ![t] = "idle"]
    /\ op' = [op EXCEPT ![t] = "sent"]
    /\ UNCHANGED << cfg, backend, roles, aux, shared, lock, stop_event, now, batch, ready, tnow,
                    offered, handed, sends, stop_runs, stop_saw, took >>

NextTransport == DirectCall(App) \/ DirectSend(App)

\* a single thread calls LokiTransport.send directly
SpecTransport == InitStats /\ [][NextTransport]_vars

\* ------------------------------------------------------- client and handler
\* the fields of LokiConfig
LokiConfigFields ==
    {"endpoint", "app", "environment", "batch_size", "flush_interval", "max_buffer_size",
     "max_batch_bytes", "max_retries", "retry_backoff", "timeout", "gzip_enabled",
     "auth_header", "extra_labels"}

\* the keyword arguments LokiHandler.standalone passes to LokiConfig
StandaloneKwargs == LokiConfigFields \cup {"max_message_bytes"}

\* the generated __init__ of the dataclass raises TypeError for a keyword
\* that is not one of its fields
ConfigAccepts(kwargs) == kwargs \subseteq LokiConfigFields

\* the thread that makes and closes the handler
Owner == "c2"

\* Loki.stop() begins: self._buffer.stop() and its is_set() test; byHandler
\* when the call is made by LokiHandler.close()
LokiStopBy(t, byHandler) ==
    /\ t \in roles.stop
    /\ pc[t] = "idle"
    /\ ~called[t]
    /\ called' = [called EXCEPT ![t] = TRUE]
    /\ handler' = IF byHandler
                  THEN [handler EXCEPT !.open = FALSE, !.stops = @ + 1]
                  ELSE handler
    /\ IF stop_event
       THEN /\ pc' = [pc EXCEPT ![t] = "close"]
            /\ UNCHANGED << op, stop_saw >>
       ELSE /\ pc' = [pc EXCEPT ![t] = "stop_set"]
            /\ op' = [op EXCEPT ![t] = "stop"]
            /\ stop_saw' = IdsOf(buffer)
    /\ NoPost
    /\ UNCHANGED << cfg, backend, roles, reported, snap, closed, shared, lock, stop_event, transport, now,
                    batch, failed, ready, tnow, offered, handed, sends, stop_runs, escaped, took >>

\* a thread calls Loki.stop()
LokiStop(t) == LokiStopBy(t, FALSE)

\* Loki.stop(): self._transport.close(), after self._buffer.stop() returned
LokiClose(t) ==
    /\ pc[t] = "close"
    /\ closed' = closed + 1
    /\ pc' = [pc EXCEPT ![t] = "off"]
    /\ NoPost
    /\ UNCHANGED << cfg, backend, roles, reported, snap, called, handler, shared, lock, stop_event,
                    transport, now, op, batch, failed, ready, tnow, ghosts, took >>

\* LokiHandler.standalone(endpoint=...): LokiConfig(...), Loki(config), cls(client)
Standalone(t) ==
    /\ pc[t] = "idle" /\ ~called[t]
    /\ handler.made = "none"
    /\ handler' = IF ConfigAccepts(StandaloneKwargs)
                  THEN [made |-> "standalone", owns |-> TRUE, client |-> "new",
                        open |-> TRUE, stops |-> 0]
                  ELSE [NoHandler EXCEPT !.made = "raised"]
    /\ NoPost
    /\ UNCHANGED << cfg, backend, roles, reported, snap, called, closed, shared, lock, stop_event,
                    transport, now, pc, op, batch, failed, ready, tnow, ghosts, took >>

\* LokiHandler.from_client(client)
FromClient(t) ==
    /\ pc[t] = "idle" /\ ~called[t]
    /\ handler.made = "none"
    /\ handler' = [made |-> "from_client", owns |-> FALSE, client |-> "given",
                   open |-> TRUE, stops |-> 0]
    /\ NoPost
    /\ UNCHANGED << cfg, backend, roles, reported, snap, called, closed, shared, lock, stop_event,
                    transport, now, pc, op, batch, failed, ready, tnow, ghosts, took >>

\* LokiHandler.close()
HandlerClose(t) ==
    /\ handler.open
    /\ IF handler.owns
       THEN LokiStopBy(t, TRUE)
       ELSE /\ pc[t] = "idle"
            /\ handler' = [handler EXCEPT !.open = FALSE]
            /\ NoPost
            /\ UNCHANGED << cfg, backend, roles, reported, snap, called, closed, shared, lock, stop_event,
                            transport, now, pc, op, batch, failed, ready, tnow, ghosts, took >>

\* batches of two entries, failed batches dropped without a retry
ClientConfigs == { Config(2, 2, 0, 0) }

\* one thread logs and then stops the client; a second one makes a handler,
\* closes it and stops the client as well
InitClient ==
    /\ cfg \in ClientConfigs
    /\ backend \in Backends
    /\ roles = Roles({"c1"}, {}, {"c1", "c2"})
    /\ buffer = <<>>
    /\ retry_queue = <<>>
    /\ lock = NoThread
    /\ stop_event = FALSE
    /\ flush_count = 0
    /\ drop_count = 0
    /\ sent_count = 0
    /\ error_count = 0
    /\ t_drop_count = 0
    /\ now = 0
    /\ pc = [t \in Threads |-> IF t = Bg THEN "wait" ELSE "idle"]
    /\ op = [t \in Threads |-> IF t = Bg THEN "run" ELSE ""]
    /\ batch = [t \in Threads |-> <<>>]
    /\ failed = [t \in Threads |-> <<>>]
    /\ ready = [t \in Threads |-> <<>>]
    /\ tnow = [t \in Threads |-> 0]
    /\ offered = 0
    /\ handed = [i \in Ids |-> 0]
    /\ sends = [i \in Ids |-> 0]
    /\ stop_runs = 0
    /\ stop_saw = {}
    /\ escaped = {}
    /\ posted = <<>>
    /\ took = [t \in Threads |-> "none"]
    /\ snap = [t \in Threads |-> <<>>]
    /\ called = [t \in Threads |-> FALSE]
    /\ closed = 0
    /\ handler = NoHandler
    /\ reported = [t \in Threads |-> <<>>]

NextClient ==
    \/ \E t \in Threads : Append_(t)
    \/ \E t \in Threads : SendBatch(t)
    \/ \E t \in Threads : CountFlush(t)
    \/ \E t \in Threads : _enqueue_retry(t)
    \/ \E t \in Threads : TakeReady(t)
    \/ \E t \in Threads : StopSet(t)
    \/ \E t \in Threads : StopFlush(t)
    \/ \E t \in Threads : LokiStop(t)
    \/ \E t \in Threads : LokiClose(t)
    \/ Standalone(Owner)
    \/ FromClient(Owner)
    \/ HandlerClose(Owner)
    \/ BgFlush
    \/ BgExit

SpecClient == InitClient /\ [][NextClient]_vars

\* ------------------------------------------------------ capacity and threshold
\* batch_size above, equal to and below max_buffer_size; failed batches are
\* dropped without a retry
BoundConfigs == { Config(3, 1, 0, 0), Config(2, 2, 0, 0), Config(1, 2, 0, 0) }

\* two threads append, one of them flushes, the background thread flushes
InitBound ==
    /\ cfg \in BoundConfigs
    /\ backend \in Backends
    /\ roles = Roles({"c1", "c2"}, {"c2"}, {})
    /\ buffer = <<>>
    /\ retry_queue = <<>>
    /\ lock = NoThread
    /\ stop_event = FALSE
    /\ flush_count = 0
    /\ drop_count = 0
    /\ sent_count = 0
    /\ error_count = 0
    /\ t_drop_count = 0
    /\ now = 0
    /\ pc = [t \in Threads |-> IF t = Bg THEN "wait" ELSE "idle"]
    /\ op = [t \in Threads |-> IF t = Bg THEN "run" ELSE ""]
    /\ batch = [t \in Threads |-> <<>>]
    /\ failed = [t \in Threads |-> <<>>]
    /\ ready = [t \in Threads |-> <<>>]
    /\ tnow = [t \in Threads |-> 0]
    /\ offered = 0
    /\ handed = [i \in Ids |-> 0]
    /\ sends = [i \in Ids |-> 0]
    /\ stop_runs = 0
    /\ stop_saw = {}
    /\ escaped = {}
    /\ posted = <<>>
    /\ took = [t \in Threads |-> "none"]
    /\ snap = [t \in Threads |-> <<>>]
    /\ called = [t \in Threads |-> FALSE]
    /\ closed = 0
    /\ handler = NoHandler
    /\ reported = [t \in Threads |-> <<>>]

NextBound ==
    \/ \E t \in Threads : Append_(t)
    \/ \E t \in Threads : Flush(t)
    \/ \E t \in Threads : SendBatch(t)
    \/ \E t \in Threads : CountFlush(t)
    \/ \E t \in Threads : _enqueue_retry(t)
    \/ \E t \in Threads : TakeReady(t)
    \/ BgFlush

SpecBound == InitBound /\ [][NextBound]_vars

\* ------------------------------------------------------------- after stop()
\* one thread appends, flushes and stops, in any order; the background thread
\* may be delayed between the return of its wait() and the lock of its
\* flush(), a window the other specifications leave closed
InitAfterStop ==
    /\ cfg \in BoundConfigs
    /\ backend \in Backends
    /\ roles = Roles({"c1"}, {"c1"}, {"c1"})
    /\ buffer = <<>>
    /\ retry_queue = <<>>
    /\ lock = NoThread
    /\ stop_event = FALSE
    /\ flush_count = 0
    /\ drop_count = 0
    /\ sent_count = 0
    /\ error_count = 0
    /\ t_drop_count = 0
    /\ now = 0
    /\ pc = [t \in Threads |-> IF t = Bg THEN "wait" ELSE "idle"]
    /\ op = [t \in Threads |-> IF t = Bg THEN "run" ELSE ""]
    /\ batch = [t \in Threads |-> <<>>]
    /\ failed = [t \in Threads |-> <<>>]
    /\ ready = [t \in Threads |-> <<>>]
    /\ tnow = [t \in Threads |-> 0]
    /\ offered = 0
    /\ handed = [i \in Ids |-> 0]
    /\ sends = [i \in Ids |-> 0]
    /\ stop_runs = 0
    /\ stop_saw = {}
    /\ escaped = {}
    /\ posted = <<>>
    /\ took = [t \in Threads |-> "none"]
    /\ snap = [t \in Threads |-> <<>>]
    /\ called = [t \in Threads |-> FALSE]
    /\ closed = 0
    /\ handler = NoHandler
    /\ reported = [t \in Threads |-> <<>>]

NextAfterStop ==
    \/ \E t \in Threads : Append_(t)
    \/ \E t \in Threads : Flush(t)
    \/ \E t \in Threads : SendBatch(t)
    \/ \E t \in Threads : CountFlush(t)
    \/ \E t \in Threads : _enqueue_retry(t)
    \/ \E t \in Threads : TakeReady(t)
    \/ \E t \in Threads : StopTest(t)
    \/ \E t \in Threads : StopSet(t)
    \/ \E t \in Threads : StopFlush(t)
    \/ BgWake
    \/ BgDetach
    \/ BgExit

SpecAfterStop == InitAfterStop /\ [][NextAfterStop]_vars

\* ------------------------------------------------------------------ fairness
\* the steps other than sends that a caller thread takes inside a call
CallStep(t) ==
    \/ CountFlush(t) \/ _enqueue_retry(t) \/ TakeReady(t) \/ Requeue(t)
    \/ StopSet(t) \/ StopFlush(t)

\* a call of Transport.send made by thread t returns or raises
SendEnds(t) == SendBatch(t) \/ Resend(t)

\* A caller thread inside a call keeps running, and each send it makes ends
\* (weak fairness of SendEnds, which is enabled exactly at the SendPcs).
\* Nothing is assumed of the background thread, which may stay in a send.
SpecFair ==
    /\ Init /\ [][Next]_vars
    /\ \A t \in Callers : WF_vars(CallStep(t))
    /\ \A t \in Callers : []<>(pc[t] \notin SendPcs) \/ []<><<SendEnds(t)>>_vars

\* one thread appends; the background thread flushes and retries
NextLive ==
    \/ Append_("c1")
    \/ \E t \in Threads : SendBatch(t)
    \/ \E t \in Threads : CountFlush(t)
    \/ \E t \in Threads : _enqueue_retry(t)
    \/ \E t \in Threads : TakeReady(t)
    \/ \E t \in Threads : Resend(t)
    \/ \E t \in Threads : Requeue(t)
    \/ BgFlush
    \/ Tick

\* Every thread keeps running and each send ends; the wait of _run times out
\* after flush_interval (weak fairness of BgFlush) and the clock advances.
SpecLive ==
    /\ InitStats /\ [][NextLive]_vars
    /\ WF_vars(BgFlush)
    /\ WF_vars(Tick)
    /\ \A t \in Threads : WF_vars(CallStep(t))
    /\ \A t \in Threads : []<>(pc[t] \notin SendPcs) \/ []<><<SendEnds(t)>>_vars

\* -------------------------------------------------------------------- claims
\* no thread inside append/flush/stop, no send in flight
Quiescent ==
    /\ lock = NoThread
    /\ \A t \in Callers : pc[t] = "idle"
    /\ pc[Bg] \in {"wait", "done", "dead"}

\* entries held in retry-queue items
InRetry == SumSeq([i \in 1..Len(retry_queue) |-> Len(retry_queue[i].entries)])

\* C1: in every quiescent state reached by sends that ended in success or
\* failure (none raised), delivered + permanently dropped + pending + held in
\* retry items equals the number of entries offered.
C1_Conservation ==
    (Quiescent /\ escaped = {})
        => sent_count + drop_count + Len(buffer) + InRetry = offered

\* C1 witness: quiescent after every append was made, with one part of the
\* entries delivered and another part waiting in a retry item
C1_Witness ==
    /\ Quiescent /\ escaped = {}
    /\ offered = MaxAppends
    /\ sent_count >= 1
    /\ InRetry >= 1

\* the places a stored entry is in before and after its hand-off: the pending
\* list, a detached batch not yet sent, a first-attempt send
Places(i) ==
    Cardinality({k \in 1..Len(buffer) : buffer[k].timestamp_ns = i})
      + SumSeq([n \in 1..3 |->
          LET t == <<"c1", "c2", "bg">>[n]
          IN Cardinality({k \in 1..Len(batch[t]) : batch[t][k].timestamp_ns = i})])
      + handed[i]

\* C2: under every interleaving each stored entry is detached exactly once:
\* it is never in two places (pending, a detached batch, a first-attempt
\* send) and once stored it does not leave them without being handed over.
C2_DetachedOnce ==
    [][\A i \in Ids : Places(i)' <= 1 /\ (Places(i) = 1 => Places(i)' = 1)]_vars

\* C2 witness: two threads hold disjoint detached batches at the same time
\* and an earlier entry has been handed over
C2_Witness ==
    \E t1, t2 \in Threads :
        /\ t1 # t2
        /\ pc[t1] = "send" /\ pc[t2] = "send"
        /\ batch[t1] # <<>> /\ batch[t2] # <<>>

\* the step is an append() call
IsAppend == offered' = offered + 1

\* C3: the pending count never exceeds max_buffer_size, and an append() that
\* finds the pending list full adds exactly 1 to drop_count, stores nothing
\* and sends nothing.
C3_Capacity ==
    [][/\ Len(buffer') <= cfg.max_buffer_size
       /\ (IsAppend /\ Len(buffer) >= cfg.max_buffer_size)
            => /\ drop_count' = drop_count + 1
               /\ buffer' = buffer
               /\ pc' = pc /\ batch' = batch /\ sends' = sends]_vars

\* C3 witness: the list is full and one entry was shed, with no send made
C3_Witness ==
    /\ Len(buffer) = cfg.max_buffer_size
    /\ drop_count = 1
    /\ flush_count = 0 /\ \A i \in Ids : sends[i] = 0
    /\ offered = cfg.max_buffer_size + 1

\* C4: a thread inside Transport.send (first attempt or resend) does not
\* hold the buffer lock.
C4_NoLockDuringSend ==
    \A t \in Threads : pc[t] \in SendPcs => lock # t

\* C4 witness: a first-attempt send and a resend are in flight together
C4_Witness ==
    \E t1, t2 \in Threads : pc[t1] = "send" /\ pc[t2] = "pr_send" /\ lock = NoThread

\* C5 (as claimed): of any number of stop() calls exactly one goes past the
\* is_set() test to signal, join and run the final flush.
C5_StopOnce == stop_runs <= 1

\* C6 (as claimed): the background task ends only after stop() was called,
\* whatever a send raises.
C6_BgSurvives == BgEnded => stop_event

\* the positions of a thread inside stop()
InStop(t) == op[t] = "stop"

\* C7: a stop() call that has started always returns, also when the
\* background task never ends (it is given no fairness) and sends fail.
C7_StopReturns == \A t \in Callers : InStop(t) ~> (pc[t] = "idle")

\* C7 witness: the only stop() call has returned while the background task
\* is still inside a send
C7_Witness ==
    /\ roles.stop = {"c2"}
    /\ stop_runs = 1 /\ pc["c2"] = "idle"
    /\ pc[Bg] = "send"

\* C8: no exception leaves append/flush/stop for a full buffer, a non-2xx
\* response, a delivery failure or exhausted retries: the only exceptions
\* that ever escape come from a POST that raised something else.
C8_NoFailureSurfaces == escaped \subseteq {"other"}

\* C8 witness: the backend was unreachable for a first attempt and for a
\* resend, an item was dropped after its retries, and nothing has escaped
C8_Witness ==
    /\ escaped = {}
    /\ Quiescent
    /\ t_drop_count >= 2
    /\ drop_count >= 1 /\ cfg.max_retries >= 1

\* thread t takes the step that settles its re-failed item
SettleStep(t) == pc[t] = "rq" /\ ready'[t] = Tail(ready[t])

\* C9: with max_retries = M >= 1 no entry is sent more than 1 + M times, an
\* item waiting for a resend has been sent 1 + attempts times, and the item
\* whose M-th resend failed (sent exactly 1 + M times) is dropped: drop_count
\* grows by its number of entries and it does not return to the queue.
C9_RetryBudget ==
    /\ [](cfg.max_retries >= 1 =>
            /\ \A i \in Ids : sends[i] <= 1 + cfg.max_retries
            /\ \A k \in 1..Len(retry_queue) :
                 /\ retry_queue[k].attempts < cfg.max_retries
                 /\ \A i \in IdsOf(retry_queue[k].entries) :
                        sends[i] = 1 + retry_queue[k].attempts)
    /\ [][\A t \in Threads :
            (cfg.max_retries >= 1 /\ SettleStep(t)
               /\ sends[Head(ready[t]).entries[1].timestamp_ns] = 1 + cfg.max_retries)
              => /\ Head(ready[t]).attempts = cfg.max_retries
                 /\ drop_count' = drop_count + Len(Head(ready[t]).entries)
                 /\ retry_queue' = retry_queue]_vars

\* C9 witness: M = 2, both entries have been sent three times and dropped
C9_Witness ==
    /\ cfg.max_retries = 2
    /\ Quiescent
    /\ sends[1] = 3 /\ sends[2] = 3
    /\ drop_count = 2
    /\ retry_queue = <<>>
    /\ sent_count = 0

\* thread t takes the step that enqueues or drops its next failed group
EnqueueStep(t) == pc[t] = "enq" /\ failed'[t] = Tail(failed[t])

\* C10: with max_retries <= 0 the retry queue stays empty, no entry is sent
\* twice, and every failed group is dropped at once: drop_count grows by the
\* number of its entries.
C10_NoRetries ==
    /\ [](cfg.max_retries <= 0 =>
            /\ retry_queue = <<>>
            /\ \A t \in Threads : ready[t] = <<>>
            /\ \A i \in Ids : sends[i] <= 1)
    /\ [][\A t \in Threads :
            (cfg.max_retries <= 0 /\ EnqueueStep(t))
              => drop_count' = drop_count + Len(Head(failed[t]))]_vars

\* C10 witness: the only entry offered failed its one send and was dropped
C10_Witness ==
    /\ cfg.max_retries = 0
    /\ offered = 1 /\ sends[1] = 1
    /\ drop_count = 1
    /\ Quiescent

TypeOK ==
    /\ lock \in Threads \cup {NoThread}
    /\ Len(buffer) <= cfg.max_buffer_size
    /\ offered <= MaxAppends

\* the entries an append() step has stored: the one with the new timestamp,
\* in the pending list or in the batch the same step detached
StoredByAppend ==
    {buffer'[k] : k \in {j \in 1..Len(buffer') : buffer'[j].timestamp_ns = offered'}}
      \cup UNION {{batch'[t][k] : k \in {j \in 1..Len(batch'[t]) :
                                            batch'[t][j].timestamp_ns = offered'}}
                  : t \in Threads}

\* C11 (as claimed): with max_message_bytes set, an append() never stores an
\* entry whose message is longer than the limit (it is counted in drop_count
\* and the pending list is unchanged); with max_message_bytes unset, an
\* append() to a list that is not full drops nothing.
C11_OversizedMessage ==
    [][IsAppend =>
         /\ \A limit \in cfg.max_message_bytes :
               \A e \in StoredByAppend : Len(e.message) <= limit
         /\ (cfg.max_message_bytes = None /\ Len(buffer) < cfg.max_buffer_size)
               => drop_count' = drop_count]_vars

\* the pending list with the entry of this append() step at its end
IsStored(list) ==
    /\ Len(list) = Len(buffer) + 1
    /\ SubSeq(list, 1, Len(buffer)) = buffer
    /\ list[Len(list)].timestamp_ns = offered'

\* C12: an append() hands a batch to Transport if and only if, after storing
\* its entry, the pending count has reached batch_size; the batch is then the
\* whole pending list, the pending list becomes empty, and the thread makes
\* the send inside that append() call (its next step, with no wait). An
\* append() below the threshold detaches and sends nothing.
C12_ThresholdTrigger ==
    /\ [][IsAppend =>
            IF Len(buffer) < cfg.max_buffer_size /\ Len(buffer) + 1 >= cfg.batch_size
            THEN \E t \in Threads :
                    /\ pc[t] = "idle" /\ pc'[t] = "send" /\ op'[t] = "append"
                    /\ IsStored(batch'[t])
                    /\ buffer' = <<>>
            ELSE /\ pc' = pc /\ batch' = batch
                 /\ (Len(buffer) < cfg.max_buffer_size => IsStored(buffer'))]_vars
    /\ [][\A t \in Threads :
            (op[t] = "append" /\ pc[t] = "send" /\ pc'[t] # "send")
              => /\ \A i \in IdsOf(batch[t]) : sends'[i] = sends[i] + 1
                 /\ now' = now]_vars

\* C12 witness: the append() that brought the pending count to batch_size
\* holds the whole list as its batch, the pending list is empty, and nothing
\* has been sent before
C12_Witness ==
    \E t \in Threads :
        /\ op[t] = "append" /\ pc[t] = "send"
        /\ Len(batch[t]) = cfg.batch_size
        /\ buffer = <<>>
        /\ offered = cfg.batch_size
        /\ \A i \in Ids : sends[i] = 0

\* a payload of one stream holding one value
SingleValue(payload) == Len(payload) = 1 /\ Len(payload[1].values) = 1

\* C13 (as claimed): every payload that is POSTed serializes to at most
\* max_batch_bytes bytes, unless it is a single stream with a single value.
C13_ByteBudget ==
    \A k \in 1..Len(posted) :
        \/ PayloadJsonLen(posted[k].payload) <= cfg.max_batch_bytes
        \/ SingleValue(posted[k].payload)

\* the entries (by timestamp) whose values a payload carries
IdsIn(payload) ==
    UNION {{payload[i].values[j].ts : j \in 1..Len(payload[i].values)}
           : i \in 1..Len(payload)}

\* the POSTs of the step just taken that did not end in a 2xx response
FailedPosts == SelectSeq(posted, LAMBDA p : p.outcome # "2xx")

\* thread t takes the step in which its first-attempt send() returns
SendReturns(t) == pc[t] = "send" /\ pc'[t] = "sb"

\* C14: a send() that returns reports one failed group per failed POST, in
\* the order of the POSTs; each group holds exactly the entries whose values
\* were in that batch, once each, and no entry of a batch that succeeded.
C14_PartialFailure ==
    [][\A t \in Threads : SendReturns(t) =>
          /\ Len(failed'[t]) = Len(FailedPosts')
          /\ \A k \in 1..Len(failed'[t]) :
                /\ IdsOf(failed'[t][k]) = IdsIn(FailedPosts'[k].payload)
                /\ Len(failed'[t][k]) = Cardinality(IdsIn(FailedPosts'[k].payload))
          /\ \A n \in 1..Len(posted') :
                posted'[n].outcome = "2xx" =>
                  \A k \in 1..Len(failed'[t]) :
                      IdsOf(failed'[t][k]) \cap IdsIn(posted'[n].payload) = {}]_vars

\* C14 witness: a send() made three POSTs of which the first succeeded and
\* the others failed, and reported two failed groups
C14_Witness ==
    \E t \in Threads :
        /\ pc[t] = "sb"
        /\ Len(posted) = 3
        /\ posted[1].outcome = "2xx" /\ posted[2].outcome # "2xx" /\ posted[3].outcome # "2xx"
        /\ Len(failed[t]) = 2

\* thread t takes the step in which a send() it made ends
SendStep(t) == pc[t] \in SendPcs /\ (pc'[t] # pc[t] \/ ready'[t] # ready[t])

\* the entries thread t passes to the send() it is making
SendInput(t) == IF pc[t] = "send" THEN batch[t] ELSE Head(ready[t]).entries

\* the payloads of the POSTs of the step just taken
Payloads == [k \in 1..Len(posted) |-> posted[k].payload]

\* no POST of the step just taken raised an exception other than HTTPError
SendReturned == \A k \in 1..Len(posted) : posted[k].outcome # "other"

\* C15: a send() that returns has POSTed every batch that packing produced
\* for its input exactly once and in order, whether earlier POSTs of the call
\* failed or not: the POSTs are the batches, as many and in the same order.
C15_IndependentBatches ==
    [][\A t \in Threads : (SendStep(t) /\ SendReturned') =>
          Payloads' = Batches(SendInput(t), cfg.max_batch_bytes).batches]_vars

\* C15 witness: a send() of three batches made its three POSTs although the
\* first and the second failed
C15_Witness ==
    /\ Len(posted) = 3
    /\ posted[1].outcome # "2xx" /\ posted[2].outcome # "2xx" /\ posted[3].outcome = "2xx"
    /\ SendReturned

\* a label dict as a set of key/value pairs
LabelSet(labels) == {labels[i] : i \in 1..Len(labels)}

\* the streams of the POSTs of the step just taken, in POST order
Streams == Flatten(Payloads)

\* the values of the entries of a list that carry the label set K, in order
ValuesFor(entries, K) ==
    LET own == SelectSeq(entries, LAMBDA e : LabelSet(e.labels) = K)
    IN [k \in 1..Len(own) |-> ValueOf(own[k])]

\* the values of the streams of a list that carry the label set K, in order
ValuesIn(streams, K) ==
    LET own == SelectSeq(streams, LAMBDA st : LabelSet(st.stream) = K)
    IN Flatten([k \in 1..Len(own) |-> own[k].values])

\* the stream that holds all entries of a list with the label set K
WholeStream(entries, K) ==
    [stream |-> SelectSeq(entries, LAMBDA e : LabelSet(e.labels) = K)[1].labels,
     values |-> ValuesFor(entries, K)]

\* C16 (as claimed): in every send() that returns, the entries of one label
\* set land in exactly one stream (no two streams carry the same label set),
\* every entry has its stream, and the values of each stream are those of
\* its entries in input order.
C16_Grouping ==
    [][\A t \in Threads : (SendStep(t) /\ SendReturned') =>
          /\ \A i, j \in 1..Len(Streams') :
                i # j => LabelSet(Streams'[i].stream) # LabelSet(Streams'[j].stream)
          /\ \A i \in 1..Len(Streams') :
                Streams'[i].values =
                    ValuesFor(SendInput(t), LabelSet(Streams'[i].stream))
          /\ \A k \in 1..Len(SendInput(t)) :
                \E i \in 1..Len(Streams') :
                    LabelSet(Streams'[i].stream) = LabelSet(SendInput(t)[k].labels)]_vars

\* C16 (amended): the entries of one label set land in exactly one stream
\* unless that stream would serialize to more than max_batch_bytes, in which
\* case they land in several streams of that label set; every stream holds
\* entries of its own label set only, and the values of the streams of one
\* label set, in POST order, are those of its entries in input order.
C16_GroupingChunked ==
    [][\A t \in Threads : (SendStep(t) /\ SendReturned') =>
          /\ \A i, j \in 1..Len(Streams') :
                (i # j /\ LabelSet(Streams'[i].stream) = LabelSet(Streams'[j].stream))
                  => StreamJsonLen(WholeStream(SendInput(t), LabelSet(Streams'[i].stream)))
                       > cfg.max_batch_bytes
          /\ \A i \in 1..Len(Streams') :
                /\ Streams'[i].values # <<>>
                /\ ValuesIn(Streams', LabelSet(Streams'[i].stream)) =
                       ValuesFor(SendInput(t), LabelSet(Streams'[i].stream))
          /\ \A k \in 1..Len(SendInput(t)) :
                \E i \in 1..Len(Streams') :
                    LabelSet(Streams'[i].stream) = LabelSet(SendInput(t)[k].labels)]_vars

\* C16 witness: a send() put the entries of one label set into two streams
\* and those of another label set into a third stream
C16_Witness ==
    /\ SendReturned
    /\ \E i, j, k \in 1..Len(Streams) :
          /\ i # j
          /\ LabelSet(Streams[i].stream) = LabelSet(Streams[j].stream)
          /\ LabelSet(Streams[k].stream) # LabelSet(Streams[i].stream)

\* the POSTs of the step just taken that had the given outcome
PostsWith(outcome) == SelectSeq(posted, LAMBDA p : p.outcome = outcome)

\* the number of entries in the batches of a list of POSTs
EntriesIn(posts) == SumSeq([k \in 1..Len(posts) |-> Cardinality(IdsIn(posts[k].payload))])

\* C17: every POST changes exactly one counter of the transport: a 2xx
\* response adds the number of entries of its batch to sent_count, a non-2xx
\* response adds 1 to error_count, a failure without response adds 1 to
\* drop_count, and nothing else changes these counters; a first-attempt
\* send() reports a failed group for every POST of either failing kind.
C17_OutcomeCounters ==
    [][/\ sent_count' = sent_count + EntriesIn(PostsWith("2xx")')
       /\ error_count' = error_count + Len(PostsWith("status")')
       /\ t_drop_count' = t_drop_count + Len(PostsWith("net")')
       /\ \A t \in Threads : SendReturns(t) =>
             Len(failed'[t]) = Len(PostsWith("status")') + Len(PostsWith("net")')]_vars

\* C17 witness: of two batches of one send() one was delivered and one got
\* no response: sent_count and the transport's drop_count are 1, error_count
\* is 0 and one failed group is reported
C17_Witness ==
    \E t \in Threads :
        /\ pc[t] = "sb"
        /\ Len(posted) = 2
        /\ Len(PostsWith("2xx")) = 1 /\ Len(PostsWith("net")) = 1
        /\ sent_count = 1 /\ t_drop_count = 1 /\ error_count = 0
        /\ Len(failed[t]) = 1

\* C18 (as claimed): a flush() that found the pending list empty makes no
\* call of Transport.send and none of its steps changes flush_count.
C18_EmptyFlush ==
    [][\A t \in Threads : took'[t] = "empty" =>
          /\ pc'[t] \notin SendPcs
          /\ (pc'[t] # pc[t] => flush_count' = flush_count)]_vars

\* C18 (amended): a flush() that found the pending list empty hands no batch
\* to Transport and none of its steps changes flush_count; it calls
\* Transport.send only to resend retry items that are due, and returns
\* without any send when its retry pass finds no due item.
C18_EmptyFlushNoHandOff ==
    [][\A t \in Threads : took'[t] = "empty" =>
          /\ pc'[t] \notin {"send", "sb", "enq"}
          /\ (pc'[t] # pc[t] => flush_count' = flush_count)
          /\ (pc[t] = "pr" /\ pc'[t] # "pr") =>
                IF \E k \in 1..Len(retry_queue) : retry_queue[k].next_retry <= tnow[t]
                THEN /\ pc'[t] = "pr_send"
                     /\ ready'[t] # <<>>
                     /\ \A k \in 1..Len(ready'[t]) : ready'[t][k].next_retry <= now
                ELSE pc'[t] = Ret(t) /\ sends' = sends]_vars

\* C18 witness: a flush() that found the pending list empty is resending a
\* due retry item, and flush_count still counts the one earlier hand-off
C18_Witness ==
    \E t \in Threads :
        /\ took[t] = "empty" /\ pc[t] = "pr_send"
        /\ flush_count = 1

\* the step begins a flush() of thread t (called directly, by stop() or by
\* _run): its first locked block
FlushBegins(t) ==
    /\ pc[t] \in {"idle", "join", "wait"}
    /\ pc'[t] \in {"send", "pr"}
    /\ op'[t] # "append"

\* the positions inside the retry-processing pass
RetryPcs == {"pr", "pr_send", "rq"}

\* the step ends the flush() thread t was inside without an exception
FlushReturns(t) == took[t] # "none" /\ took'[t] = "none" /\ SendReturned'

\* the step ends the stop() thread t was inside without an exception
StopReturns(t) == op[t] = "stop" /\ pc[t] # "idle" /\ pc'[t] = "idle" /\ SendReturned'

\* what C19 says of flush(): the whole pending list is detached whatever its
\* size, handed to Transport in one call if it is non-empty, and followed by
\* exactly one retry-processing pass
FlushShape(t) ==
    /\ FlushBegins(t) =>
          /\ batch'[t] = buffer /\ buffer' = <<>>
          /\ pc'[t] = (IF buffer # <<>> THEN "send" ELSE "pr")
    /\ (took[t] # "none" /\ pc[t] = "send" /\ pc'[t] # "send") =>
          /\ batch[t] # <<>>
          /\ \A i \in IdsOf(batch[t]) : sends'[i] = sends[i] + 1
          /\ pc'[t] \in {"sb", Raised(t)}
    /\ FlushReturns(t) => pc[t] \in RetryPcs
    /\ (took[t] # "none" /\ pc'[t] \in RetryPcs /\ pc[t] \notin RetryPcs) => pc'[t] = "pr"
    /\ (took[t] # "none" /\ pc'[t] = "pr" /\ pc[t] # "pr") => pc[t] \notin RetryPcs
    /\ (took[t] # "none" /\ pc[t] \in RetryPcs /\ pc'[t] \notin RetryPcs) => took'[t] = "none"

CountsHandOff(t) == pc[t] = "sb" /\ pc'[t] # "sb"

\* C20: a hand-off of a detached batch that returns leaves its thread about
\* to count it; counting it adds exactly 1 to flush_count, whatever the
\* number of entries handed and of failed groups reported; and flush_count
\* changes in no other step (not in a resend, not when the hand-off raises).
C20_FlushCount ==
    [][/\ \A t \in Threads :
            /\ (pc[t] = "send" /\ pc'[t] # "send" /\ SendReturned') => pc'[t] = "sb"
            /\ CountsHandOff(t) => flush_count' = flush_count + 1
       /\ flush_count' # flush_count => \E t \in Threads : CountsHandOff(t)]_vars

\* C20 witness: a batch of two entries was handed over, both of its groups
\* were reported as failed, and flush_count is 1
C20_Witness ==
    \E t \in Threads :
        /\ pc[t] = "enq"
        /\ Len(failed[t]) = 2 /\ Len(Flatten(failed[t])) = 2
        /\ flush_count = 1

\* C21: the four values one stats read returns (pending count, retry-queue
\* size, flush_count, drop_count) are the values of the state in which the
\* read completes, whatever the other threads did in between.
C21_StatsSnapshot ==
    [][\A t \in Threads : (pc[t] = "stats" /\ pc'[t] = "idle") =>
          snap'[t] = << Len(buffer), Len(retry_queue), flush_count, drop_count >>]_vars

\* C21 witness: a read returned a pending entry, a queued retry item and a
\* counted hand-off while the background thread was inside a flush
C21_Witness ==
    /\ pc[Reader] = "idle" /\ Len(snap[Reader]) = 4
    /\ snap[Reader][1] = 1 /\ snap[Reader][2] = 1 /\ snap[Reader][3] >= 1
    /\ pc[Bg] \in SendPcs

\* the entries held in retry items (queued, or taken by a retry pass)
HeldIds == UNION {IdsOf(r.entries) : r \in HeldItems}

\* the entries of failed groups that a _send_batch has still to enqueue
FailedIds == UNION {IdsOf(Flatten(failed[t])) : t \in Threads}

\* entry i was sent and is no longer anywhere it could be sent again from
Resolved(i) == sends[i] >= 1 /\ i \notin HeldIds /\ i \notin FailedIds

\* the step is a resend by thread t for which send reported no failed group
ResendSucceeds(t) ==
    /\ pc[t] = "pr_send" /\ ready'[t] # ready[t]
    /\ \A k \in 1..Len(posted') : posted'[k].outcome = "2xx"

\* C22: a resend that reports no failed group discards the item: the retry
\* queue and drop_count are unchanged, the item is held nowhere afterwards,
\* and an entry that is held nowhere is never sent again.
C22_RetrySuccess ==
    [][/\ \A t \in Threads : ResendSucceeds(t) =>
            /\ retry_queue' = retry_queue
            /\ drop_count' = drop_count
            /\ ready'[t] = Tail(ready[t])
            /\ \A i \in IdsOf(Head(ready[t]).entries) : Resolved(i)'
       /\ \A i \in Ids : Resolved(i) => (Resolved(i)' /\ sends'[i] = sends[i])]_vars

\* C22 witness: an entry was delivered by its first resend and is held
\* nowhere, with nothing dropped and the retry queue empty
C22_Witness ==
    \E i \in Ids :
        /\ sends[i] = 2 /\ Resolved(i)
        /\ sent_count >= 1 /\ drop_count = 0 /\ retry_queue = <<>>
        /\ flush_count = 1

\* the step is a resend by thread t
Resends(t) == pc[t] = "pr_send" /\ ready'[t] # ready[t]

\* C23: a retry item is created with attempts = 0 and the deadline
\* now + retry_backoff; an item whose k-th attempt fails and that may be
\* retried again gets the deadline (time of the failure) + retry_backoff * 2^k;
\* and no item is resent before its deadline.
C23_BackoffLaw ==
    [][\A t \in Threads :
          /\ (pc[t] = "enq" /\ failed'[t] # failed[t] /\ cfg.max_retries > 0) =>
                retry_queue' = Append(retry_queue,
                    [entries |-> Head(failed[t]), attempts |-> 0,
                     next_retry |-> now + cfg.retry_backoff])
          /\ Resends(t) => Head(ready[t]).next_retry <= now
          /\ (Resends(t) /\ pc'[t] = "rq") =>
                LET k == Head(ready[t]).attempts + 1
                IN /\ Head(ready'[t]).attempts = k
                   /\ k < cfg.max_retries =>
                         Head(ready'[t]).next_retry = now + cfg.retry_backoff * 2^k]_vars

\* C23 witness: an item whose first resend failed at time 1 is resent at its
\* deadline 1 + 1 * 2^1 = 3
C23_Witness ==
    \E t \in Threads :
        /\ pc[t] = "pr_send"
        /\ Head(ready[t]).attempts = 1 /\ Head(ready[t]).next_retry = 3
        /\ now = 3 /\ cfg.retry_backoff = 1

\* C24: no step lowers flush_count, drop_count, sent_count, error_count or
\* the transport's drop_count, and a send of a single entry that succeeds
\* raises sent_count by exactly 1 whatever the other threads are doing.
C24_CountersMonotone ==
    [][/\ flush_count' >= flush_count /\ drop_count' >= drop_count
       /\ sent_count' >= sent_count /\ error_count' >= error_count
       /\ t_drop_count' >= t_drop_count
       /\ \A t \in Threads :
            (SendStep(t) /\ Len(SendInput(t)) = 1 /\ PostsWith("2xx")' # <<>>) =>
                sent_count' = sent_count + 1]_vars

\* C24 witness: two threads have each handed over one entry, both sends
\* have succeeded, neither hand-off is counted yet, and sent_count is 2
C24_Witness ==
    \E t1, t2 \in Threads :
        /\ t1 # t2 /\ pc[t1] = "sb" /\ pc[t2] = "sb"
        /\ failed[t1] = <<>> /\ failed[t2] = <<>>
        /\ sent_count = 2 /\ flush_count = 0 /\ error_count = 0 /\ t_drop_count = 0

\* the entries of a list are in the order in which they were stored
InStoredOrder(entries) ==
    \A j, k \in 1..Len(entries) : j < k => entries[j].timestamp_ns < entries[k].timestamp_ns

\* the entries of a list that carry the label set K
OfLabels(entries, K) == SelectSeq(entries, LAMBDA e : LabelSet(e.labels) = K)

\* the label sets of the entries of a list
LabelSetsOf(entries) == {LabelSet(entries[k].labels) : k \in 1..Len(entries)}

\* C25 (as claimed): every list of entries the buffer hands to Transport, in
\* a first attempt or in a resend, is in the order in which its entries were
\* stored.
C25_FifoInBatch ==
    \A t \in Threads : pc[t] \in SendPcs => InStoredOrder(SendInput(t))

\* C25 (amended): every detached batch handed to Transport for its first
\* attempt is in stored order, and so is the pending list; a retry item that
\* is resent lists the entries of each label set in stored order.
C25_FifoInDetachedBatch ==
    /\ InStoredOrder(buffer)
    /\ \A t \in Threads :
        /\ pc[t] = "send" => InStoredOrder(batch[t])
        /\ pc[t] = "pr_send" =>
              \A K \in LabelSetsOf(SendInput(t)) : InStoredOrder(OfLabels(SendInput(t), K))

\* C25 witness: a retry item about to be resent holds three entries of two
\* label sets, grouped by label set and so no longer in stored order
C25_Witness ==
    \E t \in Threads :
        /\ pc[t] = "pr_send"
        /\ Len(SendInput(t)) = 3 /\ Cardinality(LabelSetsOf(SendInput(t))) = 2
        /\ ~InStoredOrder(SendInput(t))

\* C26: as long as the background thread is running, every entry in the
\* pending list is eventually handed to Transport, even when batch_size is
\* never reached and nothing more is appended.
C26_IntervalFlush ==
    \A i \in 1..MaxAppends :
        (i \in IdsOf(buffer)) ~> (handed[i] >= 1 \/ pc[Bg] = "dead")

\* C26 witness: the only entry appended, below batch_size, has been handed
\* to Transport by the background thread
C26_Witness ==
    /\ offered = 1 /\ cfg.batch_size > 1
    /\ handed[1] = 1 /\ pc[Bg] = "sb" /\ buffer = <<>>

\* entry i is in a queued retry item whose deadline the clock can reach
QueuedIn(i) ==
    \E k \in 1..Len(retry_queue) :
        i \in IdsOf(retry_queue[k].entries) /\ retry_queue[k].next_retry <= MaxTime

\* C27: while flush() keeps being invoked and time advances, every queued
\* retry item leaves the queue for good, delivered or dropped; and with
\* immediate retries the queue ends up empty once nothing new fails.
C27_RetryResolution ==
    /\ \A i \in 1..MaxAppends : QueuedIn(i) ~> (Resolved(i) \/ pc[Bg] = "dead")
    /\ (cfg.retry_backoff = 0) => <>[](retry_queue = <<>> \/ pc[Bg] = "dead")

\* C27 witness: with max_retries = 2 an entry was sent 1 + 2 times, then
\* dropped, and the retry queue is empty
C27_Witness ==
    /\ cfg.max_retries = 2
    /\ sends[1] = 3 /\ Resolved(1)
    /\ drop_count >= 1 /\ sent_count = 0
    /\ retry_queue = <<>>

\* C28: Transport.send called with an empty list returns no failed group,
\* makes no POST, raises nothing and leaves the three counters unchanged.
C28_EmptySend ==
    [][\A t \in Threads : (pc[t] = "tsend" /\ pc'[t] # "tsend" /\ batch[t] = <<>>) =>
          /\ failed'[t] = <<>> /\ posted' = <<>> /\ escaped' = escaped
          /\ sent_count' = sent_count /\ error_count' = error_count
          /\ t_drop_count' = t_drop_count]_vars

\* C28 witness: send was called with an empty list and has returned, after
\* an earlier call delivered one entry and another had one failed POST
C28_Witness ==
    \E t \in Threads :
        /\ op[t] = "sent" /\ batch[t] = <<>> /\ pc[t] = "idle"
        /\ sent_count = 1 /\ error_count + t_drop_count = 1

\* what C29 says of the order inside one Loki.stop() call of thread t: the
\* transport is closed only once self._buffer.stop() has returned (at once
\* when the event was set, else at the end of its final flush), a returned
\* self._buffer.stop() is followed by the close, and each close is one call
ShutdownOrder(t) ==
    /\ (pc'[t] = "close" /\ pc[t] # "close") =>
          /\ called'[t] /\ stop_event
          /\ \/ pc[t] = "idle"
             \/ op[t] = "stop" /\ pc[t] \in RetryPcs /\ SendReturned'
    /\ (called[t] /\ op[t] = "stop" /\ pc[t] \in RetryPcs /\ pc'[t] \notin RetryPcs
          /\ SendReturned') => pc'[t] = "close"
    /\ (pc[t] = "close" /\ pc'[t] # "close") => (pc'[t] = "off" /\ closed' = closed + 1)
    /\ closed' = Cardinality({u \in Threads : pc'[u] = "off"})

\* C29 (as claimed): Loki.stop() closes the transport after the buffer's
\* stop() and its final flush have completed, makes each of the two calls
\* once, and no send of a final flush happens after the transport was closed.
C29_ShutdownOrder ==
    [][\A t \in Threads :
          /\ ShutdownOrder(t)
          /\ (SendStep(t) /\ op[t] = "stop") => closed = 0]_vars

\* C29 (amended): the same, the last part being given when no other thread
\* has called Loki.stop().
C29_ShutdownOrderOneCall ==
    [][\A t \in Threads :
          /\ ShutdownOrder(t)
          /\ (SendStep(t) /\ op[t] = "stop" /\ \A u \in Threads \ {t} : ~called[u])
                => closed = 0]_vars

\* C29 witness: the only Loki.stop() call has handed the entry that was
\* pending to Transport in its final flush and has then closed the transport
C29_Witness ==
    /\ pc["c1"] = "off" /\ called["c1"] /\ ~called["c2"]
    /\ closed = 1
    /\ stop_saw # {} /\ \A i \in stop_saw : handed[i] = 1
    /\ flush_count = 1 /\ pc[Bg] = "done"

\* a call of LokiHandler.standalone(...) returns or raises
StandaloneCalled == handler.made = "none" /\ handler'.made \in {"standalone", "raised"}

\* a call of LokiHandler.close() on an open handler
HandlerClosed == handler.open /\ ~handler'.open

\* C30: LokiHandler.standalone(...) returns a handler that owns a newly
\* created client and whose close() stops that client exactly once; the
\* close() of a handler made by from_client() never stops the shared client.
C30_HandlerOwnership ==
    [][/\ StandaloneCalled =>
             /\ handler'.made = "standalone"
             /\ handler'.owns /\ handler'.client = "new" /\ handler'.open
       /\ (HandlerClosed /\ handler.made = "standalone") =>
             /\ handler'.stops = 1
             /\ called'[Owner] /\ ~called[Owner]
       /\ (HandlerClosed /\ handler.made = "from_client") =>
             /\ handler'.stops = 0 /\ ~handler'.owns /\ handler'.client = "given"
             /\ called' = called /\ stop_event' = stop_event /\ pc' = pc]_vars

\* the step is the _enqueue_retry call of thread t for one failed group
Enqueues(t) == pc[t] = "enq" /\ failed'[t] # failed[t]

\* C31: with max_retries >= 1 every failed group that the send of a
\* first-attempt batch returned becomes an item of its own: the k-th
\* _enqueue_retry of the g the send calls for adds one item to the end of the
\* retry queue, holding the entries of the k-th group with attempts = 0, the
\* counting step before them adds none, and they end with the g-th.
C31_OneItemPerGroup ==
    [][\A t \in Threads :
          cfg.max_retries >= 1 =>
             /\ (pc[t] = "sb" /\ pc'[t] # "sb") =>
                   /\ retry_queue' = retry_queue
                   /\ (pc'[t] = "enq") <=> (reported[t] # <<>>)
             /\ Enqueues(t) =>
                   LET g == Len(reported[t])
                       k == g - Len(failed[t]) + 1
                       n == Len(retry_queue')
                   IN /\ k \in 1..g
                      /\ n = Len(retry_queue) + 1
                      /\ SubSeq(retry_queue', 1, n - 1) = retry_queue
                      /\ retry_queue'[n].entries = reported[t][k]
                      /\ retry_queue'[n].attempts = 0
                      /\ (pc'[t] = "enq") <=> (k < g)]_vars

\* C31 witness: one hand-off of two entries came back as two failed groups
\* and each of them is an item of its own with attempts = 0
C31_Witness ==
    /\ flush_count = 1 /\ handed[1] = 1 /\ handed[2] = 1
    /\ Len(retry_queue) = 2
    /\ IdsOf(retry_queue[1].entries) \cup IdsOf(retry_queue[2].entries) = {1, 2}
    /\ Len(retry_queue[1].entries) = 1 /\ Len(retry_queue[2].entries) = 1
    /\ retry_queue[1].attempts = 0 /\ retry_queue[2].attempts = 0
    /\ \A t \in Threads : pc[t] \notin {"sb", "enq"}

\* the item that the step has put at the end of the retry queue
Queued == retry_queue'[Len(retry_queue')]

\* the step is a resend by thread t that failed and is followed by a reschedule
Reschedules(t) ==
    /\ Resends(t) /\ pc'[t] = "rq"
    /\ Head(ready'[t]).attempts < cfg.max_retries

\* C32 (as claimed): every delay is retry_backoff * 2^(attempts after the
\* increment), and the first retry of a failed batch is not due before
\* retry_backoff * 2 has passed since the batch failed.
C32_FirstRetryDelay ==
    [][\A t \in Threads :
          /\ (Enqueues(t) /\ cfg.max_retries >= 1) =>
                Queued.next_retry >= now + cfg.retry_backoff * 2
          /\ Reschedules(t) =>
                Head(ready'[t]).next_retry
                   = now + cfg.retry_backoff * 2^(Head(ready'[t]).attempts)]_vars

\* C32 (amended): the delay set after a failed resend is retry_backoff *
\* 2^(attempts after the increment), so the retry that follows the first
\* failed retry is not due before retry_backoff * 2 has passed; the first
\* retry of a failed batch is due retry_backoff * 1 after the batch failed,
\* and no retry is made before it is due.
C32_RetryDelays ==
    [][\A t \in Threads :
          /\ (Enqueues(t) /\ cfg.max_retries >= 1) =>
                /\ Queued.attempts = 0
                /\ Queued.next_retry = now + cfg.retry_backoff
          /\ Reschedules(t) =>
                /\ Head(ready'[t]).attempts = Head(ready[t]).attempts + 1
                /\ Head(ready'[t]).next_retry
                      = now + cfg.retry_backoff * 2^(Head(ready'[t]).attempts)
                /\ Head(ready[t]).attempts = 0 =>
                      Head(ready'[t]).next_retry = now + cfg.retry_backoff * 2
          /\ Resends(t) => Head(ready[t]).next_retry <= now]_vars

\* C32 witness: with retry_backoff = 1 a batch that failed at time 0 was
\* retried at time 1, failed again and is now due at time 1 + 2
C32_Witness ==
    /\ cfg.retry_backoff = 1 /\ now = 1
    /\ Len(retry_queue) = 1
    /\ retry_queue[1].attempts = 1 /\ retry_queue[1].next_retry = 3
    /\ \A i \in IdsOf(retry_queue[1].entries) : sends[i] = 2

\* the size the splitting accounts for a chunk of one stream: the empty
\* stream and the wrapper, the values, one separator between two values
Accounted(labels, values) ==
    10 + LabelsJsonLen(labels) + 13 + _WRAPPER_OVERHEAD
       + SumSeq([k \in 1..Len(values) |-> ValJsonLen(values[k])])
       + (Len(values) - 1) * _COMMA_OVERHEAD

\* what _split_oversized_streams makes of the i-th stream of a send input
PiecesOf(entries, i) ==
    LET b == _build_streams(entries)
    IN _split_oversized_streams(<< b.streams[i] >>, << b.entries[i] >>, cfg.max_batch_bytes)

\* the values, or the entries, of a list of chunks, in chunk order
Joined(chunks) == Flatten(chunks)

\* C33, for one stream of a send input: within the budget it passes through
\* unchanged; above it, it is replaced by non-empty chunks with its labels
\* whose values and entries, joined in chunk order, are the original ones, a
\* value joining a non-empty chunk only when the chunk stays within the
\* budget and a new chunk beginning only when it would not
SplitRight(entries, i) ==
    LET b == _build_streams(entries)
        stream == b.streams[i]
        group == b.entries[i]
        max_bytes == cfg.max_batch_bytes
        p == PiecesOf(entries, i)
        n == Len(p.streams)
    IN IF StreamJsonLen(stream) <= max_bytes
       THEN p.streams = << stream >> /\ p.entries = << group >>
       ELSE /\ n >= 1 /\ Len(p.entries) = n
            /\ \A j \in 1..n :
                  /\ p.streams[j].stream = stream.stream
                  /\ p.streams[j].values # <<>>
                  /\ p.streams[j].values
                        = [k \in 1..Len(p.entries[j]) |-> ValueOf(p.entries[j][k])]
                  /\ \A k \in 2..Len(p.streams[j].values) :
                        Accounted(stream.stream, SubSeq(p.streams[j].values, 1, k)) <= max_bytes
                  /\ j < n =>
                        Accounted(stream.stream,
                                  Append(p.streams[j].values, p.streams[j + 1].values[1]))
                           > max_bytes
            /\ Joined([j \in 1..n |-> p.streams[j].values]) = stream.values
            /\ Joined(p.entries) = group

\* C33: _split_oversized_streams treats every stream of a send input as
\* SplitRight says, and its output is the pieces of the streams in stream order.
C33_OversizeSplit ==
    \A t \in Threads :
       pc[t] = "send" =>
          LET b == _build_streams(batch[t])
              out == _split_oversized_streams(b.streams, b.entries, cfg.max_batch_bytes)
              m == Len(b.streams)
          IN /\ \A i \in 1..m : SplitRight(batch[t], i)
             /\ out.streams = Joined([i \in 1..m |-> PiecesOf(batch[t], i).streams])
             /\ out.entries = Joined([i \in 1..m |-> PiecesOf(batch[t], i).entries])

\* C33 witness: a stream of three values above the budget is about to be
\* sent as a chunk of two values and a chunk of one
C33_Witness ==
    \E t \in Threads :
       /\ pc[t] = "send" /\ Len(batch[t]) = 3
       /\ Len(_build_streams(batch[t]).streams) = 1
       /\ LET p == PiecesOf(batch[t], 1)
          IN /\ Len(p.streams) = 2
             /\ Len(p.streams[1].values) = 2 /\ Len(p.streams[2].values) = 1

\* the places that hold a retry item: the positions of the retry queue and
\* of the `ready` list of every thread inside _process_retries
Slots ==
    {<< "queue", i >> : i \in 1..Len(retry_queue)}
       \cup UNION {{<< t, i >> : i \in 1..Len(ready[t])} : t \in Threads}

ItemAt(slot) ==
    IF slot[1] = "queue" THEN retry_queue[slot[2]] ELSE ready[slot[1]][slot[2]]

\* C34: no retry item is held in two places (an item is the batch of entries
\* it was made for): it is in the retry queue at most once, an item a thread
\* has taken to resend is no longer in the queue, and no two threads hold,
\* or resend, the same item.
C34_ExclusiveItems ==
    \A a \in Slots, b \in Slots :
       a # b => IdsOf(ItemAt(a).entries) \cap IdsOf(ItemAt(b).entries) = {}

\* C34 witness: two threads are resending an item each at the same time
C34_Witness ==
    \E t \in Threads, u \in Threads :
       /\ t # u
       /\ pc[t] = "pr_send" /\ pc[u] = "pr_send"
       /\ ready[t] # <<>> /\ ready[u] # <<>>

\* C35: every item in the retry queue has 0 <= attempts < max_retries, no
\* item, in the queue or taken out to be resent, has attempts > max_retries,
\* and the retry queue holds an item only when max_retries >= 1.
C35_AttemptBound ==
    /\ \A i \in 1..Len(retry_queue) :
          /\ 0 <= retry_queue[i].attempts
          /\ retry_queue[i].attempts < cfg.max_retries
    /\ \A slot \in Slots :
          /\ 0 <= ItemAt(slot).attempts
          /\ ItemAt(slot).attempts <= cfg.max_retries
    /\ retry_queue # <<>> => cfg.max_retries >= 1

\* C35 witness: the second resend of an item has failed with max_retries = 2;
\* the item has two attempts and is about to be dropped
C35_Witness ==
    \E t \in Threads :
       /\ cfg.max_retries = 2
       /\ pc[t] = "rq"
       /\ Head(ready[t]).attempts = 2

\* the step is the locked block of thread t that requeues or drops the item
\* whose resend failed
Settles(t) == pc[t] = "rq" /\ ready'[t] # ready[t]

PendingLimit ==
    IF cfg.max_buffer_size < cfg.batch_size - 1
    THEN cfg.max_buffer_size ELSE cfg.batch_size - 1

\* the step is an append() of thread t that detaches a batch at the threshold
ThresholdFires(t) == pc[t] = "idle" /\ pc'[t] = "send" /\ op'[t] = "append"

\* the step takes entries out of the pending list
EntriesLeave == IdsOf(buffer) \ IdsOf(buffer') # {}

\* C37: whenever the lock is free the pending list holds at most
\* min(max_buffer_size, batch_size - 1) entries; with batch_size >
\* max_buffer_size no append() detaches a batch and entries leave the pending
\* list only in the locked block of a flush().
C37_PendingBound ==
    /\ lock = NoThread => Len(buffer) <= PendingLimit
    /\ [][/\ lock' = NoThread => Len(buffer') <= PendingLimit
          /\ cfg.batch_size > cfg.max_buffer_size =>
                /\ \A t \in Threads : ~ThresholdFires(t)
                /\ EntriesLeave =>
                      \E t \in Threads : FlushBegins(t) /\ batch'[t] = buffer]_vars

\* C37 witness: with batch_size 3 and max_buffer_size 1 the pending list is
\* at its limit of one entry and a second append() has been shed
C37_Witness ==
    /\ cfg.batch_size = 3 /\ cfg.max_buffer_size = 1
    /\ Len(buffer) = 1 /\ drop_count = 1 /\ offered = 2
    /\ lock = NoThread

\* a stop() call has set the event and returned, and none is in progress
StopDone ==
    /\ stop_event /\ stop_runs >= 1
    /\ \A t \in Callers : op[t] # "stop"

\* the step is an append() of thread t that stores its entry, in the pending
\* list or in the batch it detaches at the threshold
Stores(t) ==
    /\ IsAppend /\ pc[t] = "idle"
    /\ \/ /\ Len(buffer') = Len(buffer) + 1
          /\ SubSeq(buffer', 1, Len(buffer)) = buffer
          /\ buffer'[Len(buffer')].timestamp_ns = offered'
          /\ pc'[t] = "idle"
       \/ /\ ThresholdFires(t)
          /\ Len(batch'[t]) = Len(buffer) + 1 /\ Len(batch'[t]) >= cfg.batch_size
          /\ SubSeq(batch'[t], 1, Len(buffer)) = buffer
          /\ batch'[t][Len(batch'[t])].timestamp_ns = offered'
          /\ buffer' = <<>>

\* the step begins an explicit flush() call of a caller
ExplicitFlush == \E t \in Callers : FlushBegins(t) /\ op'[t] = "flush"

\* the step begins a flush() of the background thread
BgFlushBegins == pc[Bg] \in {"wait", "woke"} /\ pc'[Bg] \in {"send", "pr"}

\* what C38 says of append() once stop() has completed: an entry offered
\* below capacity is stored, and sent at once when it brings the pending
\* list to batch_size
StoresAfterStop ==
    (StopDone /\ IsAppend /\ Len(buffer) < cfg.max_buffer_size) =>
        /\ \E t \in Callers : Stores(t)
        /\ (Len(buffer) + 1 >= cfg.batch_size) <=> (\E t \in Callers : ThresholdFires(t))

\* C38 (as claimed): once stop() has completed append() still stores and
\* sends at the threshold, no flush of the background thread begins, and a
\* pending entry leaves the pending list only by the threshold or by an
\* explicit flush().
C38_AppendAfterStop ==
    [][/\ StoresAfterStop
       /\ StopDone =>
             /\ ~BgFlushBegins
             /\ EntriesLeave => (ExplicitFlush \/ \E t \in Callers : ThresholdFires(t))]_vars

\* C38 (amended): the same, except for the one flush of a background thread
\* whose wait() had timed out before the event was set; no wait() times out
\* once the event is set.
C38_AppendAfterStopBgWoke ==
    [][/\ StoresAfterStop
       /\ stop_event => ~(pc[Bg] = "wait" /\ pc'[Bg] \notin {"wait", "done"})
       /\ (StopDone /\ pc[Bg] # "woke") =>
             /\ ~BgFlushBegins
             /\ EntriesLeave => (ExplicitFlush \/ \E t \in Callers : ThresholdFires(t))]_vars

\* C38 witness: the only caller has stopped the buffer and then appended an
\* entry; the background thread has ended and the entry is pending
C38_Witness ==
    /\ StopDone /\ pc[Bg] = "done"
    /\ \A t \in Callers : pc[t] = "idle"
    /\ Len(buffer) = 1 /\ buffer[1].timestamp_ns = offered
    /\ cfg.batch_size > 1

\* the entries that are pending, in a retry item or in a local list of a thread
KeptIds ==
    IdsOf(buffer)
       \cup UNION {IdsOf(ItemAt(slot).entries) : slot \in Slots}
       \cup UNION {IdsOf(batch[t]) : t \in Threads}
       \cup UNION {IdsOf(Flatten(failed[t])) : t \in Threads}

\* the step is a first-attempt send of thread t that raises
FirstSendRaises(t) == pc[t] = "send" /\ SendStep(t) /\ ~SendReturned'

ValuesOf(payload) == SumSeq([i \in 1..Len(payload) |-> Len(payload[i].values)])

\* C40: for every first-attempt send() that returns, the POSTed batches
\* partition the input (no batch and no stream of a batch is empty, the value
\* of every input entry is in exactly one batch, and the batches carry no
\* other value), the failed groups returned are pairwise disjoint, and the
\* increase of sent_count plus the entries in the failed groups is the number
\* of input entries.
C40_SendConservation ==
    [][\A t \in Threads : SendReturns(t) =>
          LET input == batch[t]
              P == Payloads'
              F == failed'[t]
          IN /\ \A k \in 1..Len(P) :
                   /\ P[k] # <<>>
                   /\ \A i \in 1..Len(P[k]) : P[k][i].values # <<>>
             /\ \A e \in IdsOf(input) :
                   Cardinality({k \in 1..Len(P) : e \in IdsIn(P[k])}) = 1
             /\ SumSeq([k \in 1..Len(P) |-> ValuesOf(P[k])]) = Len(input)
             /\ \A j \in 1..Len(F), k \in 1..Len(F) :
                   j # k => IdsOf(F[j]) \cap IdsOf(F[k]) = {}
             /\ (sent_count' - sent_count) + SumSeq([k \in 1..Len(F) |-> Len(F[k])])
                   = Len(input)]_vars

\* C40 witness: the first send() of the application took three entries, had
\* its first batch delivered and its second one failed, and returned
C40_Witness ==
    \E t \in Threads :
       /\ pc[t] = "sb" /\ flush_count = 0 /\ handed[3] = 1
       /\ Len(posted) = 2
       /\ posted[1].outcome = "2xx" /\ posted[2].outcome # "2xx"
       /\ Len(failed[t]) = 1
       /\ sent_count >= 1 /\ sent_count + Len(failed[t][1]) = 3

====
